---- MODULE Spec2Model ----
(***************************************************************************)
(* Sawa backend: the Express request handlers (OTP, signup, stories,       *)
(* likes, views, follows) over the relational database.  Every handler is  *)
(* split at its awaited Prisma calls: one action per database call, which  *)
(* also runs the synchronous code that follows the call up to the next     *)
(* await.  A handler in flight occupies a slot of req; the response it     *)
(* sends is recorded in resp.                                              *)
(***************************************************************************)
EXTENDS Integers, Sequences, FiniteSets, Bags, TLC

VARIABLES
  now,         \* the server clock (new Date()), in minutes
  users,       \* table User: rows [id, email, mobile, lat, lon, name, categories,
               \* categoriesCompleted, instagramHandle]
  otps,        \* table Otp: rows [id, mobile, code, expiresAt, verified, createdAt]
  stories,     \* table Story: rows [id, userId, createdAt, expiresAt, likesCount, viewsCount]
  storyLikes,  \* table StoryLike: rows [id, storyId, userId]
  storyViews,  \* table StoryView: rows [id, storyId, userId]
  viewedBy,    \* history: the <<storyId, userId>> of every viewStory answered 200
  follows,     \* table Follow: number of rows per <<followerId, followingId>>
  req,         \* the handlers in flight, per slot
  resp,        \* the last response sent
  nextId,      \* the next row id the database hands out
  started,     \* number of requests received so far
  authorization, \* the Authorization header of the last request to a protected route
  client,      \* the mobile app: the follow-service call in progress, its outcome and
               \* state.followingStories of the stories slice
  likeLog      \* history of the likeStory requests: the StoryLike pairs and likesCount
               \* before the last two of them, and the answer that preceded the last

vars == <<now, users, otps, stories, storyLikes, storyViews, viewedBy, follows, req, resp, nextId,
          started, authorization, client, likeLog>>

----------------------------------------------------------------------------
(* Bounds of the model *)

MaxInFlight == 2
MaxOtpReqs == 3
OtpTick == 10
OtpMaxClock == 20
MaxStoryReqs == 3
MaxReadReqs == 3
MaxFollowReqs == 3
MaxLikeReqs == 3
MaxFaultReqs == 3
StoryTick == 1440
StoryMaxClock == 2880
MaxNearbyReqs == 3
MaxAuthReqs == 3
MaxProfileReqs == 3
MaxClientReqs == 3
MaxClientLikeReqs == 3
MaxFollowingReqs == 4
MaxToggleReqs == 4
MaxApiCalls == 2
MaxAuthCalls == 4
DstEnd == 30
DstShift == 60
NearbyTick == 720
NearbyMaxClock == 1440

(* Program constants *)

OtpLifetimeMinutes == 10
StoryLifetimeHours == 24
DefaultRadiusKm == 10
KmPerDegree == 111
MaxCategories == 8

----------------------------------------------------------------------------
(* Inputs *)

MobA == <<"9", "8", "7", "6", "5", "4", "3", "2", "1", "0">>
MobAFmt == <<"(", "9", "8", "7", ")", " ", "6", "5", "4", "-", "3", "2", "1", "0">>
MobShort == <<"1", "2", "3">>
MobB == <<"+", "1", "2", "3", "4", "5", "6", "7", "8", "9", "0">>
MobC == <<"5", "5", "5", "0", "1", "0", "0", "0", "0", "1">>
MobD == <<"7", "0", "0", "0", "0", "0", "0", "0", "0", "1">>
NoMobile == <<>>
RawMobiles == {MobA, MobAFmt, MobShort, NoMobile}

Codes == {"111111", "222222"}

EmailA == <<"a", "@", "x", ".", "y">>
EmailB == <<"b", "@", "x", ".", "y">>
EmailC == <<"c", "@", "x", ".", "y">>
EmailD == <<"d", "@", "x", ".", "y">>
EmailBad == <<"a", "@", "x">>
SignupEmails == {EmailA, EmailB, EmailBad}
PasswordLengths == {5, 6}

ImageUrls == {"", "ftp://", "data:image/", "https://"}

\* locations <<latitude, longitude>> in hundredths of a degree; <<>> is a
\* body without them
Locations == {<<0, 5>>, <<60 * 100, 12>>, <<95 * 100, 0>>, <<>>}

\* queries <<latitude, longitude, radius>> of getNearbyStories; radius 0
\* stands for no radius given
NearbyQueries == {<<0, 0, 0>>, <<60 * 100, 0, 0>>, <<0, 0, 20>>, <<>>}

\* stored locations of the users of the nearby search: none, or <<latitude,
\* longitude>> in hundredths of a degree
NearbyLocations == {<<>>, <<9, 9>>, <<0, 10>>, <<60 * 100, 12>>}

\* followingId of a follow request: 0 is a body without it, 99 no user's id
NoSuchUser == {99}

\* a storyId that matches no row
NoSuchStory == {0}

\* Authorization headers: none, another scheme, the scheme in lower case, a
\* token that does not verify, no token, and the tokens of users 1 and 2
NoHeader == <<>>
HeaderBasic == <<"B", "a", "s", "i", "c", " ", "t", "1">>
HeaderLower == <<"b", "e", "a", "r", "e", "r", " ", "t", "1">>
HeaderBadToken == <<"B", "e", "a", "r", "e", "r", " ", "x">>
HeaderNoToken == <<"B", "e", "a", "r", "e", "r", " ">>
HeaderUser1 == <<"B", "e", "a", "r", "e", "r", " ", "t", "1">>
HeaderUser2 == <<"B", "e", "a", "r", "e", "r", " ", "t", "2">>
Headers ==
  {NoHeader, HeaderBasic, HeaderLower, HeaderBadToken, HeaderNoToken, HeaderUser1, HeaderUser2}

\* the categories field of a request body: {} when the body has none, else
\* one value, an array or (isArray false) something else
CategoryList(n) == {[isArray |-> TRUE, items |-> [i \in 1..n |-> i]]}
NoCategories == {}
NotAnArray == {[isArray |-> FALSE, items |-> <<>>]}
CategoryFields ==
  {NoCategories, NotAnArray, CategoryList(0), CategoryList(1), CategoryList(MaxCategories),
   CategoryList(MaxCategories + 1)}

\* name and instagramHandle of a request body, {} when the body has none
NameBlank == {<<" ", " ">>}
NameAl == {<<" ", "A", "l", " ">>}
HandleAB == {<<"@", "a", ".", "b">>}
HandleSpaced == {<<"a", " ", "b">>}
HandleAtOnly == {<<" ", "@">>}

\* bodies of PUT /auth/profile
ProfileBodies ==
  {[name |-> {}, categories |-> c, instagramHandle |-> {}] : c \in CategoryFields}
  \cup {[name |-> NameBlank, categories |-> CategoryList(1), instagramHandle |-> {}],
        [name |-> NameAl, categories |-> CategoryList(MaxCategories + 1), instagramHandle |-> {}],
        [name |-> NameAl, categories |-> {}, instagramHandle |-> HandleAB],
        [name |-> {}, categories |-> CategoryList(MaxCategories), instagramHandle |-> HandleSpaced],
        [name |-> {}, categories |-> CategoryList(1), instagramHandle |-> HandleAtOnly]}

Slots == 1..MaxInFlight

----------------------------------------------------------------------------
(* Pure helpers *)

Digits == {"0", "1", "2", "3", "4", "5", "6", "7", "8", "9"}

\* mobile.replace(/[\s\-\(\)]/g, "")
NormalizeMobileNumber(mobile) ==
  SelectSeq(mobile, LAMBDA c : c \notin {" ", "-", "(", ")"})

\* /^\+?[1-9]\d{9,14}$/ on the cleaned number
ValidateMobileNumber(mobile) ==
  LET cleaned == NormalizeMobileNumber(mobile)
      d == IF Len(cleaned) > 0 /\ cleaned[1] = "+" THEN Tail(cleaned) ELSE cleaned
  IN  /\ Len(d) >= 10
      /\ Len(d) <= 15
      /\ d[1] \in Digits \ {"0"}
      /\ \A i \in 2..Len(d) : d[i] \in Digits

\* /^[^\s@]+@[^\s@]+\.[^\s@]+$/
ValidateEmail(email) ==
  \E a \in 1..Len(email) : \E d \in 1..Len(email) :
    /\ email[a] = "@"
    /\ email[d] = "."
    /\ 1 < a /\ a + 1 < d /\ d < Len(email)
    /\ \A i \in 1..Len(email) : email[i] # " " /\ (email[i] = "@" => i = a)

\* password.length < 6 is rejected
ValidatePassword(len) == len >= 6

\* new Date() > expiresAt
IsOTPExpired(expiresAt) == now > expiresAt

\* The time zone of the server is that of its environment.  Date's setters
\* work on local time: "utc" has no offset; in "dst" local time is DstShift
\* minutes ahead until daylight saving time ends, DstEnd minutes after time 0.
ServerZones == {"utc", "dst"}

\* LocalTZA(t, true): the offset of local time at the instant t
LocalTZA(zone, t) == IF zone = "dst" /\ t < DstEnd THEN DstShift ELSE 0

\* LocalTime(t)
LocalTime(zone, t) == t + LocalTZA(zone, t)

\* UTC(t): a local time that occurs twice is taken with the offset before
\* the transition
UTC(zone, local) ==
  IF zone = "dst" /\ local - DstShift < DstEnd THEN local - DstShift ELSE local

\* date.setMinutes(date.getMinutes() + minutes)
SetMinutes(zone, t, minutes) == UTC(zone, LocalTime(zone, t) + minutes)

\* date.setHours(date.getHours() + hours)
SetHours(zone, t, hours) == UTC(zone, LocalTime(zone, t) + hours * 60)

\* expiration.setMinutes(expiration.getMinutes() + 10)
GetOTPExpiration(zone) == SetMinutes(zone, now, OtpLifetimeMinutes)

----------------------------------------------------------------------------
(* Requests in flight *)

Idle ==
  [op |-> "none", pc |-> "idle", header |-> <<>>, body |-> <<>>, raw |-> <<>>,
   mobile |-> <<>>, code |-> "",
   email |-> <<>>, user |-> 0, story |-> 0, target |-> 0, geo |-> <<>>,
   snap |-> {}, at |-> 0, writes |-> 0]

NoResp ==
  [op |-> "none", status |-> 0, writes |-> 0, header |-> <<>>, body |-> <<>>, user |-> 0,
   story |-> 0,
   target |-> 0, mobile |-> <<>>, geo |-> <<>>, at |-> 0, data |-> {}]

AllIdle == \A r \in Slots : req[r].pc = "idle"

\* the slot a new request takes: the lowest idle one
FreeSlot(r) ==
  /\ req[r].pc = "idle"
  /\ \A q \in Slots : q < r => req[q].pc # "idle"

\* the handler moves on to its next database call
Goto(r, rec) == req' = [req EXCEPT ![r] = rec]

\* res.json(...) or next(error): the handler ends and the response goes out
Respond(r, rec, status, data) ==
  /\ req' = [req EXCEPT ![r] = Idle]
  /\ resp' = [op |-> rec.op, status |-> status, writes |-> rec.writes, header |-> rec.header,
              body |-> rec.body,
              user |-> rec.user, story |-> rec.story, target |-> rec.target,
              mobile |-> rec.mobile, geo |-> rec.geo, at |-> rec.at, data |-> data]

----------------------------------------------------------------------------
(* Database primitives of the Otp and User tables *)

OtpsOf(mobile) == {o \in otps : o.mobile = mobile}

\* findFirst({where: {mobile, verified}, orderBy: {createdAt: "desc"}}):
\* the candidates; which of several rows of equal createdAt comes first is
\* the database's choice
OtpFindFirst(mobile, verified) ==
  LET S == {o \in OtpsOf(mobile) : o.verified = verified}
  IN  {o \in S : \A p \in S : p.createdAt <= o.createdAt}

UserByEmail(email) == {u \in users : u.email = email}
UserByMobile(mobile) == {u \in users : u.mobile = mobile}

----------------------------------------------------------------------------
(* OTP controller *)

\* sendOTP up to its first database call
StartSendOTP(r, raw) ==
  /\ FreeSlot(r)
  /\ started' = started + 1
  /\ LET rec == [Idle EXCEPT !.op = "sendOTP", !.raw = raw,
                             !.mobile = NormalizeMobileNumber(raw)]
     IN  IF raw = NoMobile
         THEN Respond(r, [rec EXCEPT !.mobile = <<>>], 400, "Mobile number is required")
         ELSE IF ~ValidateMobileNumber(raw)
         THEN Respond(r, [rec EXCEPT !.mobile = <<>>], 400, "Invalid mobile number format")
         ELSE Goto(r, [rec EXCEPT !.pc = "send_findUser"]) /\ UNCHANGED resp
  /\ UNCHANGED <<now, users, otps, stories, storyLikes, storyViews, viewedBy, follows, nextId>>

\* prisma.user.findUnique({where: {mobile}}), then generateOTP and getOTPExpiration
SendFindUser(r) ==
  /\ req[r].pc = "send_findUser"
  /\ IF UserByMobile(req[r].mobile) # {}
     THEN Respond(r, req[r], 409, "Mobile number already registered")
     ELSE \E code \in Codes : \E zone \in ServerZones :
            /\ Goto(r, [req[r] EXCEPT !.pc = "send_deleteMany", !.code = code,
                                      !.at = GetOTPExpiration(zone)])
            /\ UNCHANGED resp
  /\ UNCHANGED <<now, users, otps, stories, storyLikes, storyViews, viewedBy, follows, nextId, started, authorization, client, likeLog>>

\* mutant: sendOTP clears only the unverified rows of the mobile
SendDeleteManyKeepsVerified(r) ==
  /\ req[r].pc = "send_deleteMany"
  /\ otps' = {o \in otps : o.mobile = req[r].mobile => o.verified}
  /\ Goto(r, [req[r] EXCEPT !.pc = "send_create", !.writes = @ + 1])
  /\ UNCHANGED <<now, users, stories, storyLikes, storyViews, viewedBy, follows, resp, nextId, started, authorization, client, likeLog>>

\* prisma.otp.deleteMany({where: {mobile}})
SendDeleteMany(r) ==
  /\ req[r].pc = "send_deleteMany"
  /\ otps' = otps \ OtpsOf(req[r].mobile)
  /\ Goto(r, [req[r] EXCEPT !.pc = "send_create", !.writes = @ + 1])
  /\ UNCHANGED <<now, users, stories, storyLikes, storyViews, viewedBy, follows, resp, nextId, started, authorization, client, likeLog>>

\* prisma.otp.create({data: {mobile, code, expiresAt}})
OtpCreate(rec) ==
  [id |-> nextId, mobile |-> rec.mobile, code |-> rec.code, expiresAt |-> rec.at,
   verified |-> FALSE, createdAt |-> now]

SendCreate(r) ==
  /\ req[r].pc = "send_create"
  /\ otps' = otps \cup {OtpCreate(req[r])}
  /\ nextId' = nextId + 1
  /\ Respond(r, [req[r] EXCEPT !.writes = @ + 1], 200, "OTP sent successfully")
  /\ UNCHANGED <<now, users, stories, storyLikes, storyViews, viewedBy, follows, started, authorization, client, likeLog>>

\* verifyOTP up to its first database call
StartVerifyOTP(r, raw, code) ==
  /\ FreeSlot(r)
  /\ started' = started + 1
  /\ LET rec == [Idle EXCEPT !.op = "verifyOTP", !.raw = raw, !.code = code,
                             !.mobile = NormalizeMobileNumber(raw)]
     IN  IF raw = NoMobile \/ code = ""
         THEN Respond(r, [rec EXCEPT !.mobile = <<>>], 400,
                      "Mobile number and OTP code are required")
         ELSE Goto(r, [rec EXCEPT !.pc = "verify_find"]) /\ UNCHANGED resp
  /\ UNCHANGED <<now, users, otps, stories, storyLikes, storyViews, viewedBy, follows, nextId>>

\* mutant: a wrong code uses the OTP up
VerifyFindBurnsOtpOnMismatch(r) ==
  /\ req[r].pc = "verify_find"
  /\ IF OtpFindFirst(req[r].mobile, FALSE) = {}
     THEN Respond(r, req[r], 404, "OTP not found or already verified") /\ UNCHANGED otps
     ELSE \E otp \in OtpFindFirst(req[r].mobile, FALSE) :
            IF IsOTPExpired(otp.expiresAt)
            THEN Goto(r, [req[r] EXCEPT !.pc = "verify_deleteExpired", !.snap = {otp.id}])
                 /\ UNCHANGED <<resp, otps>>
            ELSE IF otp.code # req[r].code
            THEN Respond(r, req[r], 400, "Invalid OTP code") /\ otps' = otps \ {otp}
            ELSE Goto(r, [req[r] EXCEPT !.pc = "verify_update", !.snap = {otp.id}])
                 /\ UNCHANGED <<resp, otps>>
  /\ UNCHANGED <<now, users, stories, storyLikes, storyViews, viewedBy, follows, nextId, started, authorization, client, likeLog>>

\* prisma.otp.findFirst({where: {mobile, verified: false}, orderBy: createdAt desc}),
\* then the expiry and code checks
VerifyFind(r) ==
  /\ req[r].pc = "verify_find"
  /\ IF OtpFindFirst(req[r].mobile, FALSE) = {}
     THEN Respond(r, req[r], 404, "OTP not found or already verified")
     ELSE \E otp \in OtpFindFirst(req[r].mobile, FALSE) :
            IF IsOTPExpired(otp.expiresAt)
            THEN Goto(r, [req[r] EXCEPT !.pc = "verify_deleteExpired", !.snap = {otp.id}])
                 /\ UNCHANGED resp
            ELSE IF otp.code # req[r].code
            THEN Respond(r, req[r], 400, "Invalid OTP code")
            ELSE Goto(r, [req[r] EXCEPT !.pc = "verify_update", !.snap = {otp.id}])
                 /\ UNCHANGED resp
  /\ UNCHANGED <<now, users, otps, stories, storyLikes, storyViews, viewedBy, follows, nextId, started, authorization, client, likeLog>>

\* prisma.otp.delete({where: {id}}) of the expired row; a row that is gone
\* makes the call throw, which the catch block passes to the error handler
VerifyDeleteExpired(r) ==
  /\ req[r].pc = "verify_deleteExpired"
  /\ IF \E o \in otps : o.id \in req[r].snap
     THEN /\ otps' = {o \in otps : o.id \notin req[r].snap}
          /\ Respond(r, [req[r] EXCEPT !.writes = @ + 1], 400,
                     "OTP has expired. Please request a new one")
     ELSE /\ otps' = otps
          /\ Respond(r, req[r], 500, "record to delete does not exist")
  /\ UNCHANGED <<now, users, stories, storyLikes, storyViews, viewedBy, follows, nextId, started, authorization, client, likeLog>>

\* prisma.otp.update({where: {id}, data: {verified: true}})
VerifyUpdate(r) ==
  /\ req[r].pc = "verify_update"
  /\ IF \E o \in otps : o.id \in req[r].snap
     THEN /\ otps' = {IF o.id \in req[r].snap THEN [o EXCEPT !.verified = TRUE] ELSE o
                      : o \in otps}
          /\ Respond(r, [req[r] EXCEPT !.writes = @ + 1], 200,
                     "Mobile number verified successfully")
     ELSE /\ otps' = otps
          /\ Respond(r, req[r], 500, "record to update not found")
  /\ UNCHANGED <<now, users, stories, storyLikes, storyViews, viewedBy, follows, nextId, started, authorization, client, likeLog>>

\* resendOTP up to its first database call
StartResendOTP(r, raw) ==
  /\ FreeSlot(r)
  /\ started' = started + 1
  /\ LET rec == [Idle EXCEPT !.op = "resendOTP", !.raw = raw,
                             !.mobile = NormalizeMobileNumber(raw)]
     IN  IF raw = NoMobile
         THEN Respond(r, [rec EXCEPT !.mobile = <<>>], 400, "Mobile number is required")
         ELSE Goto(r, [rec EXCEPT !.pc = "resend_deleteMany"]) /\ UNCHANGED resp
  /\ UNCHANGED <<now, users, otps, stories, storyLikes, storyViews, viewedBy, follows, nextId>>

\* prisma.otp.deleteMany({where: {mobile}}), then generateOTP and getOTPExpiration
ResendDeleteMany(r) ==
  /\ req[r].pc = "resend_deleteMany"
  /\ otps' = otps \ OtpsOf(req[r].mobile)
  /\ \E code \in Codes : \E zone \in ServerZones :
       Goto(r, [req[r] EXCEPT !.pc = "resend_create", !.code = code,
                              !.at = GetOTPExpiration(zone), !.writes = @ + 1])
  /\ UNCHANGED <<now, users, stories, storyLikes, storyViews, viewedBy, follows, resp, nextId, started, authorization, client, likeLog>>

\* prisma.otp.create({data: {mobile, code, expiresAt}})
ResendCreate(r) ==
  /\ req[r].pc = "resend_create"
  /\ otps' = otps \cup {OtpCreate(req[r])}
  /\ nextId' = nextId + 1
  /\ Respond(r, [req[r] EXCEPT !.writes = @ + 1], 200, "OTP resent successfully")
  /\ UNCHANGED <<now, users, stories, storyLikes, storyViews, viewedBy, follows, started, authorization, client, likeLog>>

----------------------------------------------------------------------------
(* Auth controller: signup, behind validateSignup *)

\* validateSignup, then signup up to its first database call
StartSignup(r, email, pwLen, raw) ==
  /\ FreeSlot(r)
  /\ started' = started + 1
  /\ LET rec == [Idle EXCEPT !.op = "signup", !.raw = raw, !.email = email,
                             !.mobile = NormalizeMobileNumber(raw)]
     IN  IF raw = NoMobile
         THEN Respond(r, [rec EXCEPT !.mobile = <<>>], 400, "Mobile number is required")
         ELSE IF ~ValidateEmail(email)
         THEN Respond(r, rec, 400, "Invalid email format")
         ELSE IF ~ValidatePassword(pwLen)
         THEN Respond(r, rec, 400, "Password must be at least 6 characters")
         ELSE Goto(r, [rec EXCEPT !.pc = "signup_findOtp"]) /\ UNCHANGED resp
  /\ UNCHANGED <<now, users, otps, stories, storyLikes, storyViews, viewedBy, follows, nextId>>

\* mutant: signup does not look for a verified OTP
SignupFindOtpSkipped(r) ==
  /\ req[r].pc = "signup_findOtp"
  /\ Goto(r, [req[r] EXCEPT !.pc = "signup_findEmail"])
  /\ UNCHANGED <<now, users, otps, stories, storyLikes, storyViews, viewedBy, follows, resp, nextId, started, authorization, client, likeLog>>

\* prisma.otp.findFirst({where: {mobile, verified: true}, orderBy: createdAt desc})
SignupFindOtp(r) ==
  /\ req[r].pc = "signup_findOtp"
  /\ IF OtpFindFirst(req[r].mobile, TRUE) = {}
     THEN Respond(r, req[r], 400, "Mobile number must be verified before signup")
     ELSE \E otp \in OtpFindFirst(req[r].mobile, TRUE) :
            /\ Goto(r, [req[r] EXCEPT !.pc = "signup_findEmail", !.snap = {otp.id}])
            /\ UNCHANGED resp
  /\ UNCHANGED <<now, users, otps, stories, storyLikes, storyViews, viewedBy, follows, nextId, started, authorization, client, likeLog>>

\* prisma.user.findUnique({where: {email}})
SignupFindEmail(r) ==
  /\ req[r].pc = "signup_findEmail"
  /\ IF UserByEmail(req[r].email) # {}
     THEN Respond(r, req[r], 409, "User with this email already exists")
     ELSE Goto(r, [req[r] EXCEPT !.pc = "signup_findMobile"]) /\ UNCHANGED resp
  /\ UNCHANGED <<now, users, otps, stories, storyLikes, storyViews, viewedBy, follows, nextId, started, authorization, client, likeLog>>

\* prisma.user.findUnique({where: {mobile}}), then hashPassword
SignupFindMobile(r) ==
  /\ req[r].pc = "signup_findMobile"
  /\ IF UserByMobile(req[r].mobile) # {}
     THEN Respond(r, req[r], 409, "User with this mobile number already exists")
     ELSE Goto(r, [req[r] EXCEPT !.pc = "signup_create"]) /\ UNCHANGED resp
  /\ UNCHANGED <<now, users, otps, stories, storyLikes, storyViews, viewedBy, follows, nextId, started, authorization, client, likeLog>>

\* prisma.user.create({data: {email, mobile, ...}}); email and mobile are
\* unique keys of User (both are findUnique selectors)
SignupCreate(r) ==
  /\ req[r].pc = "signup_create"
  /\ IF UserByEmail(req[r].email) # {} \/ UserByMobile(req[r].mobile) # {}
     THEN /\ Respond(r, req[r], 500, "unique constraint failed")
          /\ UNCHANGED <<users, nextId>>
     ELSE /\ users' = users \cup {[id |-> nextId, email |-> req[r].email,
                                   mobile |-> req[r].mobile, lat |-> {}, lon |-> {},
                                   name |-> <<>>, categories |-> <<>>,
                                   categoriesCompleted |-> FALSE, instagramHandle |-> {}]}
          /\ nextId' = nextId + 1
          /\ Goto(r, [req[r] EXCEPT !.pc = "signup_deleteOtp", !.user = nextId,
                                    !.writes = @ + 1])
          /\ UNCHANGED resp
  /\ UNCHANGED <<now, otps, stories, storyLikes, storyViews, viewedBy, follows, started, authorization, client, likeLog>>

\* mutant: signup leaves the verified OTP in place
SignupDeleteOtpOmitted(r) ==
  /\ req[r].pc = "signup_deleteOtp"
  /\ otps' = otps
  /\ Respond(r, [req[r] EXCEPT !.writes = @ + 1], 201, req[r].snap)
  /\ UNCHANGED <<now, users, stories, storyLikes, storyViews, viewedBy, follows, nextId, started, authorization, client, likeLog>>

\* prisma.otp.deleteMany({where: {mobile, verified: true}}), then the 201 response
SignupDeleteOtp(r) ==
  /\ req[r].pc = "signup_deleteOtp"
  /\ otps' = {o \in otps : ~(o.mobile = req[r].mobile /\ o.verified)}
  /\ Respond(r, [req[r] EXCEPT !.writes = @ + 1], 201, req[r].snap)
  /\ UNCHANGED <<now, users, stories, storyLikes, storyViews, viewedBy, follows, nextId, started, authorization, client, likeLog>>

----------------------------------------------------------------------------
(* Auth controller: saveCategories and updateProfile *)

\* mutant: the limit is taken one too high
TooManyCategoriesOffByOne(categories) == Len(categories) > MaxCategories + 1

\* categories.length > 8
TooManyCategories(categories) == Len(categories) > MaxCategories

\* str.trim()
Trim(str) ==
  LET kept == {i \in 1..Len(str) : str[i] # " "}
  IN  IF kept = {} THEN <<>>
      ELSE SubSeq(str, CHOOSE i \in kept : \A j \in kept : i <= j,
                       CHOOSE i \in kept : \A j \in kept : j <= i)

Letters ==
  {"a", "b", "c", "d", "e", "f", "g", "h", "i", "j", "k", "l", "m", "n", "o", "p", "q",
   "r", "s", "t", "u", "v", "w", "x", "y", "z", "A", "B", "C", "D", "E", "F", "G", "H",
   "I", "J", "K", "L", "M", "N", "O", "P", "Q", "R", "S", "T", "U", "V", "W", "X", "Y", "Z"}

\* instagramHandle.trim().replace(/^@/, "")
CleanHandle(handle) ==
  LET t == Trim(handle)
  IN  IF t # <<>> /\ t[1] = "@" THEN Tail(t) ELSE t

\* /^[a-zA-Z0-9._]{1,30}$/
ValidHandle(cleaned) ==
  /\ Len(cleaned) >= 1
  /\ Len(cleaned) <= 30
  /\ \A i \in 1..Len(cleaned) : cleaned[i] \in Letters \cup Digits \cup {".", "_"}

\* saveCategories: the checks of the array, then prisma.user.update
SaveCategories(r, u, field) ==
  /\ FreeSlot(r)
  /\ started' = started + 1
  /\ LET rec == [Idle EXCEPT !.op = "saveCategories", !.user = u,
                             !.body = [categories |-> field]]
     IN  IF \A c \in field : ~c.isArray
         THEN Respond(r, rec, 400, "Categories must be an array") /\ UNCHANGED users
         ELSE LET categories == (CHOOSE c \in field : TRUE).items
                  Change(p) == [p EXCEPT !.categories = categories,
                                         !.categoriesCompleted = TRUE]
              IN  IF Len(categories) = 0
                  THEN Respond(r, rec, 400, "At least one category must be selected")
                       /\ UNCHANGED users
                  ELSE IF TooManyCategories(categories)
                  THEN Respond(r, rec, 400, "Maximum 8 categories allowed")
                       /\ UNCHANGED users
                  ELSE /\ users' = {IF p.id = u THEN Change(p) ELSE p : p \in users}
                       /\ Respond(r, [rec EXCEPT !.writes = 1], 200,
                                  {Change(p) : p \in {q \in users : q.id = u}})
  /\ UNCHANGED <<now, otps, stories, storyLikes, storyViews, viewedBy, follows, nextId>>

\* updateProfile: updateData is built field by field, each with its checks,
\* then prisma.user.update
UpdateProfile(r, u, body) ==
  /\ FreeSlot(r)
  /\ started' = started + 1
  /\ LET rec == [Idle EXCEPT !.op = "updateProfile", !.user = u, !.body = body]
         WithName(p) ==
           IF body.name = {} THEN p
           ELSE [p EXCEPT !.name = Trim(CHOOSE n \in body.name : TRUE)]
         WithCategories(p) ==
           IF body.categories = {} THEN p
           ELSE LET categories == (CHOOSE c \in body.categories : TRUE).items
                IN  [p EXCEPT !.categories = categories,
                              !.categoriesCompleted = Len(categories) > 0]
         WithHandle(p) ==
           IF body.instagramHandle = {} THEN p
           ELSE LET cleanedHandle == CleanHandle(CHOOSE h \in body.instagramHandle : TRUE)
                IN  [p EXCEPT !.instagramHandle =
                                 IF cleanedHandle # <<>> THEN {cleanedHandle} ELSE {}]
         Change(p) == WithHandle(WithCategories(WithName(p)))
     IN  IF \E n \in body.name : Trim(n) = <<>>
         THEN Respond(r, rec, 400, "Name cannot be empty") /\ UNCHANGED users
         ELSE IF \E c \in body.categories : ~c.isArray
         THEN Respond(r, rec, 400, "Categories must be an array") /\ UNCHANGED users
         ELSE IF \E c \in body.categories : TooManyCategories(c.items)
         THEN Respond(r, rec, 400, "Maximum 8 categories allowed") /\ UNCHANGED users
         ELSE IF \E h \in body.instagramHandle :
                   CleanHandle(h) # <<>> /\ ~ValidHandle(CleanHandle(h))
         THEN Respond(r, rec, 400, "Invalid Instagram handle format") /\ UNCHANGED users
         ELSE /\ users' = {IF p.id = u THEN Change(p) ELSE p : p \in users}
              /\ Respond(r, [rec EXCEPT !.writes = 1], 200,
                         {Change(p) : p \in {q \in users : q.id = u}})
  /\ UNCHANGED <<now, otps, stories, storyLikes, storyViews, viewedBy, follows, nextId>>

----------------------------------------------------------------------------
(* Database primitives of the story tables *)

StoryById(id) == {s \in stories : s.id = id}
LikesOf(sid, uid) == {l \in storyLikes : l.storyId = sid /\ l.userId = uid}
ViewsOf(sid, uid) == {v \in storyViews : v.storyId = sid /\ v.userId = uid}

\* where: {expiresAt: {gt: t}}
ActiveAt(t) == {s \in stories : s.expiresAt > t}

\* mutant: any row can come first
LatestAny(S) == S

\* orderBy: {createdAt: "desc"}: the rows that can come first
Latest(S) == {s \in S : \A q \in S : q.createdAt <= s.createdAt}

\* one story per user of S, the first of that user in createdAt-descending
\* order; rows of equal createdAt come in the database's order
LatestPerUser(S) ==
  {D \in SUBSET S :
     /\ \A d \in D : d \in Latest({q \in S : q.userId = d.userId})
     /\ \A s \in S : Cardinality({d \in D : d.userId = s.userId}) = 1}

\* story.update({data: {likesCount: {increment: n}}})
AddLikes(sid, n) ==
  {IF s.id = sid THEN [s EXCEPT !.likesCount = @ + n] ELSE s : s \in stories}

\* story.update({data: {viewsCount: {increment: n}}})
AddViews(sid, n) ==
  {IF s.id = sid THEN [s EXCEPT !.viewsCount = @ + n] ELSE s : s \in stories}

\* rows of Follow for the ordered pair
FollowCount(follower, following) ==
  IF <<follower, following>> \in DOMAIN follows THEN follows[<<follower, following>>] ELSE 0

----------------------------------------------------------------------------
(* Story controller *)

\* uploadStory: validation, the 24-hour expiry, prisma.story.create
UploadStory(r, u, img) ==
  /\ FreeSlot(r)
  /\ started' = started + 1
  /\ \E zone \in ServerZones :
     LET rec == [Idle EXCEPT !.op = "uploadStory", !.user = u]
         expiresAt == SetHours(zone, now, StoryLifetimeHours)
         story == [id |-> nextId, userId |-> u, createdAt |-> now,
                   expiresAt |-> expiresAt, likesCount |-> 0, viewsCount |-> 0]
     IN  IF img = ""
         THEN /\ Respond(r, rec, 400, "Image URL is required")
              /\ UNCHANGED <<stories, nextId>>
         ELSE IF img \notin {"data:image/", "http://", "https://"}
         THEN /\ Respond(r, rec, 400, "Invalid image format")
              /\ UNCHANGED <<stories, nextId>>
         ELSE /\ stories' = stories \cup {story}
              /\ nextId' = nextId + 1
              /\ Respond(r, [rec EXCEPT !.story = nextId, !.at = expiresAt, !.writes = 1],
                         201, {story})
  /\ UNCHANGED <<now, users, otps, storyLikes, storyViews, viewedBy, follows>>

\* mutant: the read does not filter on expiresAt
ActiveStoriesOfUnfiltered(u, t) == {s \in stories : s.userId = u}

\* findMany({where: {userId, expiresAt: {gt: now}}})
ActiveStoriesOf(u, t) == {s \in ActiveAt(t) : s.userId = u}

\* getUserStories: the requester's latest active story, or null
GetUserStories(r, u) ==
  /\ FreeSlot(r)
  /\ started' = started + 1
  /\ LET rec == [Idle EXCEPT !.op = "getUserStories", !.user = u, !.at = now]
     IN  IF ActiveStoriesOf(u, now) = {}
         THEN Respond(r, rec, 200, {})
         ELSE \E s \in Latest(ActiveStoriesOf(u, now)) : Respond(r, rec, 200, {s})
  /\ UNCHANGED <<now, users, otps, stories, storyLikes, storyViews, viewedBy, follows, nextId>>

\* the StoryLike table as (storyId, userId) pairs, its unique key
LikePairs == {<<l.storyId, l.userId>> : l \in storyLikes}

\* the likesCount column, by story id
LikesCounts == {<<q.id, q.likesCount>> : q \in stories}

\* no likeStory request yet
NoLikeLog ==
  [prev |-> [pairs |-> {}, counts |-> {}, answer |-> NoResp],
   cur |-> [pairs |-> {}, counts |-> {}]]

\* a likeStory request arrives: the log keeps the tables as they were before
\* the previous likeStory request together with the last answer sent, and
\* the tables as they are now
LogLikeStory ==
  likeLog' = [prev |-> [pairs |-> likeLog.cur.pairs, counts |-> likeLog.cur.counts,
                        answer |-> resp],
              cur |-> [pairs |-> LikePairs, counts |-> LikesCounts]]

\* likeStory up to its first database call
StartLikeStory(r, u, sid) ==
  /\ FreeSlot(r)
  /\ started' = started + 1
  /\ Goto(r, [Idle EXCEPT !.op = "likeStory", !.pc = "like_findStory",
                          !.user = u, !.story = sid])
  /\ UNCHANGED <<now, users, otps, stories, storyLikes, storyViews, viewedBy, follows, resp, nextId>>

\* prisma.story.findUnique({where: {id}}), then the expiry check
LikeFindStory(r) ==
  /\ req[r].pc = "like_findStory"
  /\ IF StoryById(req[r].story) = {}
     THEN Respond(r, req[r], 404, "Story not found")
     ELSE IF \E s \in StoryById(req[r].story) : s.expiresAt < now
     THEN Respond(r, req[r], 410, "Story has expired")
     ELSE Goto(r, [req[r] EXCEPT !.pc = "like_findLike"]) /\ UNCHANGED resp
  /\ UNCHANGED <<now, users, otps, stories, storyLikes, storyViews, viewedBy, follows, nextId, started, authorization, client, likeLog>>

\* prisma.storyLike.findUnique({where: {storyId_userId}})
LikeFindLike(r) ==
  /\ req[r].pc = "like_findLike"
  /\ IF LikesOf(req[r].story, req[r].user) = {}
     THEN Goto(r, [req[r] EXCEPT !.pc = "like_create"])
     ELSE \E l \in LikesOf(req[r].story, req[r].user) :
            Goto(r, [req[r] EXCEPT !.pc = "like_delete", !.snap = {l.id}])
  /\ UNCHANGED <<now, users, otps, stories, storyLikes, storyViews, viewedBy, follows, resp, nextId, started, authorization, client, likeLog>>

\* mutant: the unlike decrements the counter and keeps the row
LikeDeleteOmitted(r) ==
  /\ req[r].pc = "like_delete"
  /\ storyLikes' = storyLikes
  /\ Goto(r, [req[r] EXCEPT !.pc = "like_decrement", !.writes = @ + 1])
  /\ UNCHANGED resp
  /\ UNCHANGED <<now, users, otps, stories, storyViews, viewedBy, follows, nextId, started, authorization, client, likeLog>>

\* prisma.storyLike.delete({where: {id}}); throws when the row is gone
LikeDelete(r) ==
  /\ req[r].pc = "like_delete"
  /\ IF \E l \in storyLikes : l.id \in req[r].snap
     THEN /\ storyLikes' = {l \in storyLikes : l.id \notin req[r].snap}
          /\ Goto(r, [req[r] EXCEPT !.pc = "like_decrement", !.writes = @ + 1])
          /\ UNCHANGED resp
     ELSE /\ storyLikes' = storyLikes
          /\ Respond(r, req[r], 500, "record to delete does not exist")
  /\ UNCHANGED <<now, users, otps, stories, storyViews, viewedBy, follows, nextId, started, authorization, client, likeLog>>

\* mutant: the unlike leaves the counter alone
LikeDecrementOmitted(r) ==
  /\ req[r].pc = "like_decrement"
  /\ stories' = stories
  /\ Respond(r, [req[r] EXCEPT !.writes = @ + 1], 200, FALSE)
  /\ UNCHANGED <<now, users, otps, storyLikes, storyViews, viewedBy, follows, nextId, started, authorization, client, likeLog>>

\* prisma.story.update({data: {likesCount: {decrement: 1}}}), then liked: false
LikeDecrement(r) ==
  /\ req[r].pc = "like_decrement"
  /\ IF StoryById(req[r].story) # {}
     THEN /\ stories' = AddLikes(req[r].story, -1)
          /\ Respond(r, [req[r] EXCEPT !.writes = @ + 1], 200, FALSE)
     ELSE /\ stories' = stories
          /\ Respond(r, req[r], 500, "record to update not found")
  /\ UNCHANGED <<now, users, otps, storyLikes, storyViews, viewedBy, follows, nextId, started, authorization, client, likeLog>>

\* prisma.storyLike.create({data: {storyId, userId}}): (storyId, userId) is a
\* unique key of StoryLike (the findUnique selector storyId_userId) and
\* storyId references Story
LikeCreate(r) ==
  /\ req[r].pc = "like_create"
  /\ IF StoryById(req[r].story) = {} \/ LikesOf(req[r].story, req[r].user) # {}
     THEN /\ Respond(r, req[r], 500, "constraint failed")
          /\ UNCHANGED <<storyLikes, nextId>>
     ELSE /\ storyLikes' = storyLikes \cup
                 {[id |-> nextId, storyId |-> req[r].story, userId |-> req[r].user]}
          /\ nextId' = nextId + 1
          /\ Goto(r, [req[r] EXCEPT !.pc = "like_increment", !.writes = @ + 1])
          /\ UNCHANGED resp
  /\ UNCHANGED <<now, users, otps, stories, storyViews, viewedBy, follows, started, authorization, client, likeLog>>

\* prisma.story.update({data: {likesCount: {increment: 1}}}), then liked: true
LikeIncrement(r) ==
  /\ req[r].pc = "like_increment"
  /\ IF StoryById(req[r].story) # {}
     THEN /\ stories' = AddLikes(req[r].story, 1)
          /\ Respond(r, [req[r] EXCEPT !.writes = @ + 1], 200, TRUE)
     ELSE /\ stories' = stories
          /\ Respond(r, req[r], 500, "record to update not found")
  /\ UNCHANGED <<now, users, otps, storyLikes, storyViews, viewedBy, follows, nextId, started, authorization, client, likeLog>>

\* viewStory up to its first database call
StartViewStory(r, u, sid) ==
  /\ FreeSlot(r)
  /\ started' = started + 1
  /\ Goto(r, [Idle EXCEPT !.op = "viewStory", !.pc = "view_findStory",
                          !.user = u, !.story = sid])
  /\ UNCHANGED <<now, users, otps, stories, storyLikes, storyViews, viewedBy, follows, resp, nextId>>

\* prisma.story.findUnique({where: {id}}), then the expiry and owner checks
ViewFindStory(r) ==
  /\ req[r].pc = "view_findStory"
  /\ IF StoryById(req[r].story) = {}
     THEN Respond(r, req[r], 404, "Story not found") /\ UNCHANGED viewedBy
     ELSE IF \E s \in StoryById(req[r].story) : s.expiresAt < now
     THEN Respond(r, req[r], 410, "Story has expired") /\ UNCHANGED viewedBy
     ELSE IF \E s \in StoryById(req[r].story) : s.userId = req[r].user
     THEN /\ Respond(r, req[r], 200, "Story viewed (own story, view not tracked)")
          /\ viewedBy' = viewedBy \cup {<<req[r].story, req[r].user>>}
     ELSE Goto(r, [req[r] EXCEPT !.pc = "view_findView"]) /\ UNCHANGED <<resp, viewedBy>>
  /\ UNCHANGED <<now, users, otps, stories, storyLikes, storyViews, follows, nextId, started, authorization, client, likeLog>>

\* prisma.storyView.findUnique({where: {storyId_userId}})
ViewFindView(r) ==
  /\ req[r].pc = "view_findView"
  /\ IF ViewsOf(req[r].story, req[r].user) = {}
     THEN Goto(r, [req[r] EXCEPT !.pc = "view_create"]) /\ UNCHANGED <<resp, viewedBy>>
     ELSE /\ Respond(r, req[r], 200, "Story viewed")
          /\ viewedBy' = viewedBy \cup {<<req[r].story, req[r].user>>}
  /\ UNCHANGED <<now, users, otps, stories, storyLikes, storyViews, follows, nextId, started, authorization, client, likeLog>>

\* prisma.storyView.create({data: {storyId, userId}}), under the same keys as
\* StoryLike
ViewCreate(r) ==
  /\ req[r].pc = "view_create"
  /\ IF StoryById(req[r].story) = {} \/ ViewsOf(req[r].story, req[r].user) # {}
     THEN /\ Respond(r, req[r], 500, "constraint failed")
          /\ UNCHANGED <<storyViews, nextId>>
     ELSE /\ storyViews' = storyViews \cup
                 {[id |-> nextId, storyId |-> req[r].story, userId |-> req[r].user]}
          /\ nextId' = nextId + 1
          /\ Goto(r, [req[r] EXCEPT !.pc = "view_increment", !.writes = @ + 1])
          /\ UNCHANGED resp
  /\ UNCHANGED <<now, users, otps, stories, storyLikes, viewedBy, follows, started, authorization, client, likeLog>>

\* mutant: the view is counted twice
ViewIncrementTwice(r) ==
  /\ req[r].pc = "view_increment"
  /\ stories' = AddViews(req[r].story, 2)
  /\ Respond(r, [req[r] EXCEPT !.writes = @ + 1], 200, "Story viewed")
  /\ viewedBy' = viewedBy \cup {<<req[r].story, req[r].user>>}
  /\ UNCHANGED <<now, users, otps, storyLikes, storyViews, follows, nextId, started, authorization, client, likeLog>>

\* prisma.story.update({data: {viewsCount: {increment: 1}}}), then the response
ViewIncrement(r) ==
  /\ req[r].pc = "view_increment"
  /\ IF StoryById(req[r].story) # {}
     THEN /\ stories' = AddViews(req[r].story, 1)
          /\ Respond(r, [req[r] EXCEPT !.writes = @ + 1], 200, "Story viewed")
          /\ viewedBy' = viewedBy \cup {<<req[r].story, req[r].user>>}
     ELSE /\ stories' = stories
          /\ Respond(r, req[r], 500, "record to update not found")
          /\ UNCHANGED viewedBy
  /\ UNCHANGED <<now, users, otps, storyLikes, storyViews, follows, nextId, started, authorization, client, likeLog>>

\* deleteStory up to its first database call
StartDeleteStory(r, u, sid) ==
  /\ FreeSlot(r)
  /\ started' = started + 1
  /\ Goto(r, [Idle EXCEPT !.op = "deleteStory", !.pc = "delete_findStory",
                          !.user = u, !.story = sid])
  /\ UNCHANGED <<now, users, otps, stories, storyLikes, storyViews, viewedBy, follows, resp, nextId>>

\* mutant: any user may delete the story
DeleteFindStoryAnyUser(r) ==
  /\ req[r].pc = "delete_findStory"
  /\ IF StoryById(req[r].story) = {}
     THEN Respond(r, req[r], 404, "Story not found")
     ELSE Goto(r, [req[r] EXCEPT !.pc = "delete_delete"]) /\ UNCHANGED resp
  /\ UNCHANGED <<now, users, otps, stories, storyLikes, storyViews, viewedBy, follows, nextId, started, authorization, client, likeLog>>

\* prisma.story.findUnique({where: {id}}), then the ownership check
DeleteFindStory(r) ==
  /\ req[r].pc = "delete_findStory"
  /\ IF StoryById(req[r].story) = {}
     THEN Respond(r, req[r], 404, "Story not found")
     ELSE IF \E s \in StoryById(req[r].story) : s.userId # req[r].user
     THEN Respond(r, req[r], 403, "Unauthorized to delete this story")
     ELSE Goto(r, [req[r] EXCEPT !.pc = "delete_delete"]) /\ UNCHANGED resp
  /\ UNCHANGED <<now, users, otps, stories, storyLikes, storyViews, viewedBy, follows, nextId, started, authorization, client, likeLog>>

\* delete of Story rows: "cascade will delete likes and views"
CascadeDelete(gone) ==
  /\ stories' = stories \ gone
  /\ storyLikes' = {l \in storyLikes : \A s \in gone : l.storyId # s.id}
  /\ storyViews' = {v \in storyViews : \A s \in gone : v.storyId # s.id}

\* prisma.story.delete({where: {id}})
DeleteDelete(r) ==
  /\ req[r].pc = "delete_delete"
  /\ IF StoryById(req[r].story) # {}
     THEN /\ CascadeDelete(StoryById(req[r].story))
          /\ Respond(r, [req[r] EXCEPT !.writes = @ + 1], 200, "Story deleted successfully")
     ELSE /\ UNCHANGED <<stories, storyLikes, storyViews>>
          /\ Respond(r, req[r], 500, "record to delete does not exist")
  /\ UNCHANGED <<now, users, otps, viewedBy, follows, nextId, started, authorization, client, likeLog>>

\* cleanupExpiredStories: prisma.story.deleteMany({where: {expiresAt: {lt: now}}})
CleanupExpiredStories(r, u) ==
  /\ FreeSlot(r)
  /\ started' = started + 1
  /\ LET gone == {s \in stories : s.expiresAt < now}
     IN  /\ CascadeDelete(gone)
         /\ Respond(r, [Idle EXCEPT !.op = "cleanupExpiredStories", !.user = u,
                                    !.at = now, !.writes = 1],
                    200, Cardinality(gone))
  /\ UNCHANGED <<now, users, otps, viewedBy, follows, nextId>>

\* updateUserLocation: the range checks, then prisma.user.update
UpdateUserLocation(r, u, loc) ==
  /\ FreeSlot(r)
  /\ started' = started + 1
  /\ LET rec == [Idle EXCEPT !.op = "updateUserLocation", !.user = u, !.geo = loc]
     IN  IF loc = <<>>
         THEN Respond(r, rec, 400, "Latitude and longitude are required")
              /\ UNCHANGED users
         ELSE IF loc[1] < -90 * 100 \/ loc[1] > 90 * 100
         THEN Respond(r, rec, 400, "Latitude must be between -90 and 90")
              /\ UNCHANGED users
         ELSE IF loc[2] < -180 * 100 \/ loc[2] > 180 * 100
         THEN Respond(r, rec, 400, "Longitude must be between -180 and 180")
              /\ UNCHANGED users
         ELSE /\ users' = {IF p.id = u THEN [p EXCEPT !.lat = {loc[1]}, !.lon = {loc[2]}]
                           ELSE p : p \in users}
              /\ Respond(r, [rec EXCEPT !.writes = 1], 200, "Location updated successfully")
  /\ UNCHANGED <<now, otps, stories, storyLikes, storyViews, viewedBy, follows, nextId>>

\* Math.cos(lat * Math.PI / 180) of the search latitudes, as a ratio
CosRatio(lat) ==
  CASE lat = 0 -> <<1, 1>>
    [] lat = 60 * 100 -> <<1, 2>>

\* mutant: the box bounds the latitude only
InBoundingBoxLatOnly(ulat, ulon, q) ==
  LET dLat == ulat - q[1]
      radiusKm == IF q[3] = 0 THEN DefaultRadiusKm ELSE q[3]
  IN  /\ KmPerDegree * dLat <= radiusKm * 100
      /\ KmPerDegree * dLat >= -(radiusKm * 100)

\* latitude within [lat - r/111, lat + r/111] and longitude within
\* [lon - r/(111 cos lat), lon + r/(111 cos lat)]; coordinates are in
\* hundredths of a degree, and the inequalities are multiplied out
InBoundingBox(ulat, ulon, q) ==
  LET c == CosRatio(q[1])
      dLat == ulat - q[1]
      dLon == ulon - q[2]
      radiusKm == IF q[3] = 0 THEN DefaultRadiusKm ELSE q[3]
  IN  /\ KmPerDegree * dLat <= radiusKm * 100
      /\ KmPerDegree * dLat >= -(radiusKm * 100)
      /\ KmPerDegree * c[1] * dLon <= radiusKm * 100 * c[2]
      /\ KmPerDegree * c[1] * dLon >= -(radiusKm * 100 * c[2])

\* getNearbyStories up to its first database call
StartGetNearbyStories(r, u, q) ==
  /\ FreeSlot(r)
  /\ started' = started + 1
  /\ LET rec == [Idle EXCEPT !.op = "getNearbyStories", !.user = u, !.geo = q, !.at = now]
     IN  IF q = <<>>
         THEN Respond(r, [rec EXCEPT !.at = 0], 400, "Latitude and longitude are required")
         ELSE Goto(r, [rec EXCEPT !.pc = "nearby_diagnostic"]) /\ UNCHANGED resp
  /\ UNCHANGED <<now, users, otps, stories, storyLikes, storyViews, viewedBy, follows, nextId>>

\* the diagnostic prisma.user.findMany, whose rows are only logged
NearbyDiagnostic(r) ==
  /\ req[r].pc = "nearby_diagnostic"
  /\ Goto(r, [req[r] EXCEPT !.pc = "nearby_query"])
  /\ UNCHANGED <<now, users, otps, stories, storyLikes, storyViews, viewedBy, follows, resp, nextId, started, authorization, client, likeLog>>

\* the users of the box other than the requester that have a location and
\* an active story
NearbyUsers(u, q, t) ==
  {p \in users :
     /\ p.id # u
     /\ p.lat # {} /\ p.lon # {}
     /\ \A la \in p.lat : \A lo \in p.lon : InBoundingBox(la, lo, q)
     /\ ActiveStoriesOf(p.id, t) # {}}

\* Math.round(distance * 10) of the Haversine formula with R = 6371: the
\* distance in tenths of a kilometre between the search point <<q[1], q[2]>>
\* and <<ulat, ulon>>, the formula evaluated in double precision at the
\* coordinates the model uses
HaversineTenths(q, ulat, ulon) ==
  LET at == <<q[1], q[2], ulat, ulon>>
  IN  CASE at = <<0, 0, 0, 5>> -> 56
        [] at = <<0, 0, 9, 9>> -> 142
        [] at = <<0, 0, 0, 10>> -> 111
        [] at = <<0, 0, 60 * 100, 12>> -> 66717
        [] at = <<60 * 100, 0, 0, 5>> -> 66717
        [] at = <<60 * 100, 0, 9, 9>> -> 66617
        [] at = <<60 * 100, 0, 0, 10>> -> 66717
        [] at = <<60 * 100, 0, 60 * 100, 12>> -> 67

\* the rows of a findMany without orderBy come in the database's order
Orderings(S) ==
  {f \in [1..Cardinality(S) -> S] : \A i, j \in DOMAIN f : f[i] = f[j] => i = j}

\* the entry of the response for user p, whose story of the include is in D
NearbyItem(p, D, q) ==
  LET story == CHOOSE d \in D : d.userId = p.id
      lat == CHOOSE la \in p.lat : TRUE
      lon == CHOOSE lo \in p.lon : TRUE
  IN  [id |-> story.id, userId |-> story.userId, likesCount |-> story.likesCount,
       viewsCount |-> story.viewsCount, expiresAt |-> story.expiresAt,
       createdAt |-> story.createdAt, distance |-> HaversineTenths(q, lat, lon)]

\* mutant: the list is returned in the database's order
Unsorted(list) == list

\* .sort((a, b) => a.distance - b.distance), a stable sort: each entry goes
\* behind the entries of the sorted prefix that are not farther
RECURSIVE SortByDistance(_)
SortByDistance(list) ==
  IF list = <<>>
  THEN <<>>
  ELSE LET x == list[Len(list)]
           sorted == SortByDistance(SubSeq(list, 1, Len(list) - 1))
           k == Cardinality({i \in DOMAIN sorted : sorted[i].distance <= x.distance})
       IN  SubSeq(sorted, 1, k) \o <<x>> \o SubSeq(sorted, k + 1, Len(sorted))

\* prisma.user.findMany({where: box and active story, include: {stories:
\* {where: {expiresAt: {gt: now}}, orderBy: createdAt desc, take: 1}}}),
\* then the entry with its distance for each user and the sort
NearbyQuery(r) ==
  /\ req[r].pc = "nearby_query"
  /\ LET near == NearbyUsers(req[r].user, req[r].geo, req[r].at)
         S == UNION {ActiveStoriesOf(p.id, req[r].at) : p \in near}
     IN  \E D \in LatestPerUser(S) : \E nearbyUsers \in Orderings(near) :
           LET storiesWithDistance ==
                 [i \in DOMAIN nearbyUsers |-> NearbyItem(nearbyUsers[i], D, req[r].geo)]
           IN  Respond(r, req[r], 200, SortByDistance(storiesWithDistance))
  /\ UNCHANGED <<now, users, otps, stories, storyLikes, storyViews, viewedBy, follows, nextId, started, authorization, client, likeLog>>

----------------------------------------------------------------------------
(* Follow controller *)

\* mutant: followUser does not compare the two ids
StartFollowUserNoSelfCheck(r, u, target) ==
  /\ FreeSlot(r)
  /\ started' = started + 1
  /\ LET rec == [Idle EXCEPT !.op = "followUser", !.user = u, !.target = target]
     IN  IF target = 0
         THEN Respond(r, rec, 400, "Following user ID is required")
         ELSE Goto(r, [rec EXCEPT !.pc = "follow_findUser"]) /\ UNCHANGED resp
  /\ UNCHANGED <<now, users, otps, stories, storyLikes, storyViews, viewedBy, follows, nextId>>

\* followUser up to its first database call
StartFollowUser(r, u, target) ==
  /\ FreeSlot(r)
  /\ started' = started + 1
  /\ LET rec == [Idle EXCEPT !.op = "followUser", !.user = u, !.target = target]
     IN  IF target = 0
         THEN Respond(r, rec, 400, "Following user ID is required")
         ELSE IF u = target
         THEN Respond(r, rec, 400, "Cannot follow yourself")
         ELSE Goto(r, [rec EXCEPT !.pc = "follow_findUser"]) /\ UNCHANGED resp
  /\ UNCHANGED <<now, users, otps, stories, storyLikes, storyViews, viewedBy, follows, nextId>>

\* prisma.user.findUnique({where: {id: followingId}})
FollowFindUser(r) ==
  /\ req[r].pc = "follow_findUser"
  /\ IF \A p \in users : p.id # req[r].target
     THEN Respond(r, req[r], 404, "User not found")
     ELSE Goto(r, [req[r] EXCEPT !.pc = "follow_findFollow"]) /\ UNCHANGED resp
  /\ UNCHANGED <<now, users, otps, stories, storyLikes, storyViews, viewedBy, follows, nextId, started, authorization, client, likeLog>>

\* prisma.follow.findUnique({where: {followerId_followingId}})
FollowFindFollow(r) ==
  /\ req[r].pc = "follow_findFollow"
  /\ IF FollowCount(req[r].user, req[r].target) > 0
     THEN Respond(r, req[r], 400, "Already following this user")
     ELSE Goto(r, [req[r] EXCEPT !.pc = "follow_create"]) /\ UNCHANGED resp
  /\ UNCHANGED <<now, users, otps, stories, storyLikes, storyViews, viewedBy, follows, nextId, started, authorization, client, likeLog>>

\* mutant: Follow has no unique key on (followerId, followingId)
FollowCreateNoUniqueKey(r) ==
  /\ req[r].pc = "follow_create"
  /\ follows' = follows (+) SetToBag({<<req[r].user, req[r].target>>})
  /\ Respond(r, [req[r] EXCEPT !.writes = @ + 1], 200, "User followed successfully")
  /\ UNCHANGED <<now, users, otps, stories, storyLikes, storyViews, viewedBy, nextId, started, authorization, client, likeLog>>

\* prisma.follow.create({data: {followerId, followingId}}): the pair is a
\* unique key of Follow (the findUnique selector followerId_followingId)
FollowCreate(r) ==
  /\ req[r].pc = "follow_create"
  /\ IF FollowCount(req[r].user, req[r].target) > 0
     THEN /\ follows' = follows
          /\ Respond(r, req[r], 500, "unique constraint failed")
     ELSE /\ follows' = follows (+) SetToBag({<<req[r].user, req[r].target>>})
          /\ Respond(r, [req[r] EXCEPT !.writes = @ + 1], 200, "User followed successfully")
  /\ UNCHANGED <<now, users, otps, stories, storyLikes, storyViews, viewedBy, nextId, started, authorization, client, likeLog>>

\* unfollowUser up to its first database call
StartUnfollowUser(r, u, target) ==
  /\ FreeSlot(r)
  /\ started' = started + 1
  /\ LET rec == [Idle EXCEPT !.op = "unfollowUser", !.user = u, !.target = target]
     IN  IF target = 0
         THEN Respond(r, rec, 400, "Following user ID is required")
         ELSE Goto(r, [rec EXCEPT !.pc = "unfollow_find"]) /\ UNCHANGED resp
  /\ UNCHANGED <<now, users, otps, stories, storyLikes, storyViews, viewedBy, follows, nextId>>

\* prisma.follow.findUnique({where: {followerId_followingId}})
UnfollowFind(r) ==
  /\ req[r].pc = "unfollow_find"
  /\ IF FollowCount(req[r].user, req[r].target) = 0
     THEN Respond(r, req[r], 400, "Not following this user")
     ELSE Goto(r, [req[r] EXCEPT !.pc = "unfollow_delete"]) /\ UNCHANGED resp
  /\ UNCHANGED <<now, users, otps, stories, storyLikes, storyViews, viewedBy, follows, nextId, started, authorization, client, likeLog>>

\* prisma.follow.delete({where: {followerId_followingId}}); throws when the
\* row is gone
UnfollowDelete(r) ==
  /\ req[r].pc = "unfollow_delete"
  /\ IF FollowCount(req[r].user, req[r].target) > 0
     THEN /\ follows' = follows (-) SetToBag({<<req[r].user, req[r].target>>})
          /\ Respond(r, [req[r] EXCEPT !.writes = @ + 1], 200, "User unfollowed successfully")
     ELSE /\ follows' = follows
          /\ Respond(r, req[r], 500, "record to delete does not exist")
  /\ UNCHANGED <<now, users, otps, stories, storyLikes, storyViews, viewedBy, nextId, started, authorization, client, likeLog>>

\* getFollowingStories up to its first database call
StartGetFollowingStories(r, u) ==
  /\ FreeSlot(r)
  /\ started' = started + 1
  /\ Goto(r, [Idle EXCEPT !.op = "getFollowingStories", !.pc = "following_findFollows",
                          !.user = u, !.at = now])
  /\ UNCHANGED <<now, users, otps, stories, storyLikes, storyViews, viewedBy, follows, resp, nextId>>

\* mutant: every user counts as followed
FollowingFindFollowsEveryone(r) ==
  /\ req[r].pc = "following_findFollows"
  /\ Goto(r, [req[r] EXCEPT !.pc = "following_findStories", !.snap = {p.id : p \in users}])
  /\ UNCHANGED resp
  /\ UNCHANGED <<now, users, otps, stories, storyLikes, storyViews, viewedBy, follows, nextId, started, authorization, client, likeLog>>

\* prisma.follow.findMany({where: {followerId}, select: {followingId}})
FollowingFindFollows(r) ==
  /\ req[r].pc = "following_findFollows"
  /\ LET followingIds == {p.id : p \in {q \in users : FollowCount(req[r].user, q.id) > 0}}
     IN  IF followingIds = {}
         THEN Respond(r, req[r], 200, {})
         ELSE Goto(r, [req[r] EXCEPT !.pc = "following_findStories", !.snap = followingIds])
              /\ UNCHANGED resp
  /\ UNCHANGED <<now, users, otps, stories, storyLikes, storyViews, viewedBy, follows, nextId, started, authorization, client, likeLog>>

\* prisma.story.findMany({where: {userId: {in: followingIds}, expiresAt:
\* {gt: now}}, orderBy: createdAt desc}), then the grouping by user
FollowingFindStories(r) ==
  /\ req[r].pc = "following_findStories"
  /\ LET S == UNION {ActiveStoriesOf(f, req[r].at) : f \in req[r].snap}
     IN  \E D \in LatestPerUser(S) : Respond(r, req[r], 200, D)
  /\ UNCHANGED <<now, users, otps, stories, storyLikes, storyViews, viewedBy, follows, nextId, started, authorization, client, likeLog>>

\* checkFollowStatus: prisma.follow.findUnique on (followerId, followingId),
\* then res.json({success: true, data: {isFollowing: !!follow}})
CheckFollowStatus(r, u, target) ==
  /\ FreeSlot(r)
  /\ started' = started + 1
  /\ Respond(r, [Idle EXCEPT !.op = "checkFollowStatus", !.user = u, !.target = target,
                             !.at = now],
             200, [isFollowing |-> FollowCount(u, target) > 0])
  /\ UNCHANGED <<now, users, otps, stories, storyLikes, storyViews, viewedBy, follows, nextId>>

\* getFollowersCount: prisma.follow.count({where: {followingId: userId}})
GetFollowersCount(r, u, target) ==
  /\ FreeSlot(r)
  /\ started' = started + 1
  /\ Respond(r, [Idle EXCEPT !.op = "getFollowersCount", !.user = u, !.target = target,
                             !.at = now],
             200, [count |-> BagCardinality([p \in {q \in BagToSet(follows) : q[2] = target}
                                          |-> follows[p]])])
  /\ UNCHANGED <<now, users, otps, stories, storyLikes, storyViews, viewedBy, follows, nextId>>

\* getFollowingCount: prisma.follow.count({where: {followerId: userId}})
GetFollowingCount(r, u, target) ==
  /\ FreeSlot(r)
  /\ started' = started + 1
  /\ Respond(r, [Idle EXCEPT !.op = "getFollowingCount", !.user = u, !.target = target,
                             !.at = now],
             200, [count |-> BagCardinality([p \in {q \in BagToSet(follows) : q[1] = target}
                                          |-> follows[p]])])
  /\ UNCHANGED <<now, users, otps, stories, storyLikes, storyViews, viewedBy, follows, nextId>>

----------------------------------------------------------------------------
(* The mobile app: ApiService.request and the follow service *)

\* JavaScript values as they come out of JSON.parse
Undefined == [kind |-> "undefined", val |-> {}]
JBool(b) == [kind |-> "boolean", val |-> b]
JNum(n) == [kind |-> "number", val |-> n]
JObj(fields) == [kind |-> "object", val |-> fields]
JArr(elements) == [kind |-> "array", val |-> elements]
JStr(s) == [kind |-> "string", val |-> s]
JNull == [kind |-> "null", val |-> {}]

\* a body that response.text() could not deliver or JSON.parse rejected
Unparseable == [kind |-> "unparseable", val |-> {}]

\* a promise that rejects instead of resolving
Rejected == [kind |-> "rejected", val |-> {}]

\* v?.key: undefined unless v is an object that has the property (an array
\* has no property success or data)
Get(v, key) ==
  IF v.kind = "object" /\ key \in DOMAIN v.val THEN v.val[key] ELSE Undefined

\* the condition of if (v) and of v && w
Truthy(v) ==
  CASE v.kind = "undefined" -> FALSE
    [] v.kind = "boolean" -> v.val
    [] v.kind = "number" -> v.val # 0
    [] v.kind = "string" -> v.val # ""
    [] v.kind = "null" -> FALSE
    [] OTHER -> TRUE

\* a || b
Or(a, b) == IF Truthy(a) THEN a ELSE b

\* the body res.json sends for a handler's answer: {success: true, data} with
\* the handler's payload, for likeStory {success: true, message, liked} (the
\* message text is left out); an error answer carries no data
ResponseBody(answer) ==
  IF answer.status # 200
  THEN JObj([success |-> JBool(FALSE)])
  ELSE IF answer.op = "likeStory"
  THEN JObj([success |-> JBool(TRUE), liked |-> JBool(answer.data)])
  ELSE JObj([success |-> JBool(TRUE),
             data |-> CASE answer.op = "checkFollowStatus" ->
                             JObj([isFollowing |-> JBool(answer.data.isFollowing)])
                        [] answer.op \in {"getFollowersCount", "getFollowingCount"} ->
                             JObj([count |-> JNum(answer.data.count)])
                        [] OTHER -> JArr(answer.data)])

\* {success: false, error: {message, code}}
Failure(message, code) ==
  JObj([success |-> JBool(FALSE), error |-> JObj([message |-> message, code |-> code])])

\* the outer catch block of ApiService.request on the error it caught
CatchError(name, message) ==
  IF name = "AbortError"
  THEN Failure(JStr("Request timeout. Please check your connection."), JStr("TIMEOUT"))
  ELSE Failure(JStr(CASE message = "Network request failed" -> "Cannot connect to server"
                      [] message = "Failed to fetch" -> "Server connection failed"
                      [] OTHER -> message),
               JStr("NETWORK_ERROR"))

\* ApiService.request from the parsed body on: a failure object unless
\* response.ok; the parsed body itself when it has a success property;
\* otherwise the body wrapped as data
AfterParse(status, data) ==
  IF ~(status >= 200 /\ status <= 299)
  THEN Failure(Or(Get(Get(data, "error"), "message"),
                  Or(Get(data, "message"), JStr("Request failed"))),
               Or(Get(Get(data, "error"), "code"), JStr(ToString(status))))
  ELSE IF Get(data, "success").kind # "undefined"
  THEN data
  ELSE JObj([success |-> JBool(TRUE), data |-> data])

\* mutant: the statements after the parse stand outside the outer try, so
\* the TypeError of a null body escapes
ApiServiceRequestNullEscapes(status, data) ==
  IF data.kind = "unparseable"
  THEN Failure(JStr("Invalid response from server"), JStr("PARSE_ERROR"))
  ELSE IF data.kind = "null"
  THEN Rejected
  ELSE AfterParse(status, data)

\* ApiService.request after fetch has resolved: the inner catch answers an
\* unreadable body with PARSE_ERROR; data.error and data.success on a null
\* body throw a TypeError, which the outer catch answers
ApiServiceRequest(status, data) ==
  IF data.kind = "unparseable"
  THEN Failure(JStr("Invalid response from server"), JStr("PARSE_ERROR"))
  ELSE IF data.kind = "null"
  THEN CatchError("TypeError", "Cannot read properties of null")
  ELSE AfterParse(status, data)

\* what a service function hands to its caller
Threw == [outcome |-> "threw", value |-> Undefined]
Returns(v) == [outcome |-> "returned", value |-> v]

\* followService.checkFollowStatus on the ApiResponse
ServiceCheckFollowStatus(response) ==
  LET backendResponse == Get(response, "data")
  IN  IF ~Truthy(Get(response, "success")) THEN Threw
      ELSE IF Truthy(Get(backendResponse, "success")) /\ Truthy(Get(backendResponse, "data"))
      THEN Returns(Get(Get(backendResponse, "data"), "isFollowing"))
      ELSE Returns(JBool(FALSE))

\* followService.getFollowingStories on the ApiResponse
ServiceGetFollowingStories(response) ==
  LET backendResponse == Get(response, "data")
  IN  IF ~Truthy(Get(response, "success")) THEN Threw
      ELSE IF Truthy(Get(backendResponse, "success"))
              /\ Get(backendResponse, "data").kind = "array"
      THEN Returns(Get(backendResponse, "data"))
      ELSE Returns(JArr({}))

\* followService.getFollowersCount and getFollowingCount on the ApiResponse
ServiceGetCount(response) ==
  LET backendResponse == Get(response, "data")
  IN  IF ~Truthy(Get(response, "success")) THEN Threw
      ELSE IF Truthy(Get(backendResponse, "success")) /\ Truthy(Get(backendResponse, "data"))
      THEN Returns(Get(Get(backendResponse, "data"), "count"))
      ELSE Returns(JNum(0))

\* storyService.likeStory on the ApiResponse: response.data as LikeResponse
ServiceLikeStory(response) ==
  IF ~Truthy(Get(response, "success")) THEN Threw ELSE Returns(Get(response, "data"))

\* the likeStory thunk on the service's outcome: {storyId, liked:
\* response.liked}; reading a property of undefined throws a TypeError, which
\* the catch block turns into rejectWithValue, as it does the service's Error
LikeStoryPayload(storyId, result) ==
  IF result.outcome = "threw" \/ result.value.kind = "undefined"
  THEN [outcome |-> "rejected", value |-> Undefined]
  ELSE [outcome |-> "fulfilled",
        value |-> JObj([storyId |-> JNum(storyId), liked |-> Get(result.value, "liked")])]

\* the follow-service functions that read
ServiceFns == {"checkFollowStatus", "getFollowingStories", "getFollowersCount",
               "getFollowingCount"}

\* the service function fn applied to its ApiResponse
FollowService(fn, response) ==
  CASE fn = "checkFollowStatus" -> ServiceCheckFollowStatus(response)
    [] fn = "getFollowingStories" -> ServiceGetFollowingStories(response)
    [] OTHER -> ServiceGetCount(response)

\* the app before its first call: initialState.followingStories = []
NoFetch == [kind |-> "none", status |-> 0, body |-> Undefined, message |-> ""]

\* a checkAuth call that has not started: what it read from SecureStore and
\* whether the server accepted the token
NoCheckAuth == [pc |-> "idle", storedToken |-> 0, storedUser |-> 0, accepted |-> FALSE]

\* AuthProvider on mount: useState(null), useState(null), useState(true);
\* store holds the SecureStore entries auth_token and auth_user (0: absent);
\* signedOut tells that signOut has completed and no signIn succeeded since
AuthContext(storedToken, storedUser) ==
  [user |-> 0, token |-> 0, isLoading |-> TRUE,
   store |-> [token |-> storedToken, user |-> storedUser],
   check |-> NoCheckAuth, out |-> "idle", in |-> "idle", signedOut |-> FALSE]

\* isAuthenticated: !!token && !!user
IsAuthenticated(a) == a.token # 0 /\ a.user # 0

ClientIdle ==
  [pc |-> "idle", fn |-> "none", outcome |-> "none", value |-> Undefined, at |-> 0,
   followingStories |-> {}, timer |-> "none", fetched |-> NoFetch,
   auth |-> AuthContext(0, 0)]

----------------------------------------------------------------------------
(* The authenticate middleware of the story and follow routers *)

\* authHeader.startsWith(prefix)
StartsWith(str, prefix) ==
  /\ Len(str) >= Len(prefix)
  /\ SubSeq(str, 1, Len(prefix)) = prefix

\* verifyToken(token): the userId of the token's payload; 0 stands for the
\* exception it throws on a token that does not verify
VerifyToken(token) ==
  CASE token = <<"t", "1">> -> 1
    [] token = <<"t", "2">> -> 2
    [] OTHER -> 0

\* mutant: the scheme of the header is not looked at
AuthenticateAnyScheme(authHeader) ==
  LET token == SubSeq(authHeader, 8, Len(authHeader))
      decoded == VerifyToken(token)
  IN  IF authHeader = NoHeader
      THEN [status |-> 401, message |-> "No token provided", user |-> 0]
      ELSE IF decoded = 0
      THEN [status |-> 401, message |-> "Invalid or expired token", user |-> 0]
      ELSE [status |-> 0, message |-> "", user |-> decoded]

\* authenticate: the error it passes on, or status 0 and req.user.id when it
\* calls next()
Authenticate(authHeader) ==
  LET token == SubSeq(authHeader, 8, Len(authHeader))
      decoded == VerifyToken(token)
  IN  IF authHeader = NoHeader \/ ~StartsWith(authHeader, <<"B", "e", "a", "r", "e", "r", " ">>)
      THEN [status |-> 401, message |-> "No token provided", user |-> 0]
      ELSE IF decoded = 0
      THEN [status |-> 401, message |-> "Invalid or expired token", user |-> 0]
      ELSE [status |-> 0, message |-> "", user |-> decoded]

\* next(error) of authenticate: the request ends at the error handler
AuthReject(r, authHeader) ==
  /\ FreeSlot(r)
  /\ started' = started + 1
  /\ Respond(r, [Idle EXCEPT !.op = "authenticate", !.header = authHeader],
             Authenticate(authHeader).status, Authenticate(authHeader).message)
  /\ UNCHANGED <<now, users, otps, stories, storyLikes, storyViews, viewedBy, follows, nextId>>

----------------------------------------------------------------------------
(* Database errors *)

\* the database call of a handler's second write rejects (connection lost,
\* timeout): the catch block passes the error on, nothing is undone
DbWriteFails(r) ==
  /\ req[r].pc \in {"send_create", "resend_create", "signup_deleteOtp",
                    "like_increment", "like_decrement", "view_increment"}
  /\ Respond(r, req[r], 500, "database error")
  /\ UNCHANGED <<now, users, otps, stories, storyLikes, storyViews, viewedBy, follows, nextId, started, authorization, client, likeLog>>

----------------------------------------------------------------------------
(* The clock *)

StoryClockTick ==
  /\ now + StoryTick <= StoryMaxClock
  /\ now' = now + StoryTick
  /\ UNCHANGED <<users, otps, stories, storyLikes, storyViews, viewedBy, follows, req, resp, nextId, started, authorization, client, likeLog>>

OtpClockTick ==
  /\ now + OtpTick <= OtpMaxClock
  /\ now' = now + OtpTick
  /\ UNCHANGED <<users, otps, stories, storyLikes, storyViews, viewedBy, follows, req, resp, nextId, started, authorization, client, likeLog>>

NearbyClockTick ==
  /\ now + NearbyTick <= NearbyMaxClock
  /\ now' = now + NearbyTick
  /\ UNCHANGED <<users, otps, stories, storyLikes, storyViews, viewedBy, follows, req, resp, nextId, started, authorization, client, likeLog>>

----------------------------------------------------------------------------
(* Specifications *)

\* the database after deployment: every table empty
Init ==
  /\ now = 0
  /\ users = {}
  /\ otps = {}
  /\ stories = {}
  /\ storyLikes = {}
  /\ storyViews = {}
  /\ viewedBy = {}
  /\ follows = [p \in {} |-> 0]
  /\ req = [r \in Slots |-> Idle]
  /\ resp = NoResp
  /\ nextId = 1
  /\ started = 0
  /\ authorization = <<>>
  /\ client = ClientIdle
  /\ likeLog = NoLikeLog

\* three registered users: the database after three signups (row ids are
\* opaque, the seeded rows take the first three)
SeedUsers ==
  {[id |-> i, email |-> <<EmailA, EmailB, EmailC>>[i], mobile |-> <<MobA, MobB, MobC>>[i],
    lat |-> {}, lon |-> {}, name |-> <<>>, categories |-> <<>>,
    categoriesCompleted |-> FALSE, instagramHandle |-> {}] : i \in 1..3}

InitSeeded ==
  /\ now = 0
  /\ users = SeedUsers
  /\ otps = {}
  /\ stories = {}
  /\ storyLikes = {}
  /\ storyViews = {}
  /\ viewedBy = {}
  /\ follows = EmptyBag
  /\ req = [r \in Slots |-> Idle]
  /\ resp = NoResp
  /\ nextId = Cardinality(SeedUsers) + 1
  /\ started = 0
  /\ authorization = <<>>
  /\ client = ClientIdle
  /\ likeLog = NoLikeLog

\* the authenticated callers: authenticate puts the token's user id in req.user
UserIds == {u.id : u \in users}
StoryIds == {s.id : s \in stories} \cup NoSuchStory

OtpStart(r) ==
  /\ started < MaxOtpReqs
  /\ UNCHANGED <<authorization, client, likeLog>>
  /\ \/ \E raw \in RawMobiles : StartSendOTP(r, raw)
     \/ \E raw \in RawMobiles : \E code \in Codes \cup {""} : StartVerifyOTP(r, raw, code)
     \/ \E raw \in RawMobiles : StartResendOTP(r, raw)
     \/ \E email \in SignupEmails : \E pwLen \in PasswordLengths : \E raw \in RawMobiles :
          StartSignup(r, email, pwLen, raw)

OtpStep(r) ==
  \/ SendFindUser(r)
  \/ SendDeleteMany(r)
  \/ SendCreate(r)
  \/ VerifyFind(r)
  \/ VerifyDeleteExpired(r)
  \/ VerifyUpdate(r)
  \/ ResendDeleteMany(r)
  \/ ResendCreate(r)
  \/ SignupFindOtp(r)
  \/ SignupFindEmail(r)
  \/ SignupFindMobile(r)
  \/ SignupCreate(r)
  \/ SignupDeleteOtp(r)

\* OTP and signup requests, each run to completion before the next starts
NextOtp ==
  \/ \E r \in Slots : AllIdle /\ OtpStart(r)
  \/ \E r \in Slots : OtpStep(r)
  \/ OtpClockTick

SpecOtp == Init /\ [][NextOtp]_vars

FollowTargets == UserIds \cup {0} \cup NoSuchUser

FollowStart(r) ==
  /\ started < MaxFollowReqs
  /\ UNCHANGED <<authorization, client, likeLog>>
  /\ \/ \E u \in UserIds : \E t \in FollowTargets : StartFollowUser(r, u, t)
     \/ \E u \in UserIds : \E t \in FollowTargets : StartUnfollowUser(r, u, t)

FollowStep(r) ==
  \/ FollowFindUser(r)
  \/ FollowFindFollow(r)
  \/ FollowCreate(r)
  \/ UnfollowFind(r)
  \/ UnfollowDelete(r)

\* follow and unfollow requests, up to MaxInFlight of them in flight at once
NextFollow ==
  \/ \E r \in Slots : FollowStart(r)
  \/ \E r \in Slots : FollowStep(r)

SpecFollow == InitSeeded /\ [][NextFollow]_vars

ReadStart(r) ==
  /\ started < MaxReadReqs
  /\ UNCHANGED <<authorization, client, likeLog>>
  /\ \/ \E u \in UserIds : UploadStory(r, u, "https://")
     \/ \E u \in UserIds : \E loc \in Locations : UpdateUserLocation(r, u, loc)
     \/ \E u \in UserIds : \E t \in UserIds : StartFollowUser(r, u, t)
     \/ \E u \in UserIds : CleanupExpiredStories(r, u)
     \/ \E u \in UserIds : GetUserStories(r, u)
     \/ \E u \in UserIds : StartGetFollowingStories(r, u)
     \/ \E u \in UserIds : \E q \in NearbyQueries : StartGetNearbyStories(r, u, q)

ReadStep(r) ==
  \/ FollowFindUser(r)
  \/ FollowFindFollow(r)
  \/ FollowCreate(r)
  \/ FollowingFindFollows(r)
  \/ FollowingFindStories(r)
  \/ NearbyDiagnostic(r)
  \/ NearbyQuery(r)

\* the story reads among uploads, location updates, follows and cleanups,
\* each request run to completion before the next starts
NextReads ==
  \/ \E r \in Slots : AllIdle /\ ReadStart(r)
  \/ \E r \in Slots : ReadStep(r)
  \/ StoryClockTick

SpecReads == InitSeeded /\ [][NextReads]_vars

LikeStart(r) ==
  /\ started < MaxLikeReqs
  /\ UNCHANGED <<authorization, client, likeLog>>
  /\ \/ \E u \in UserIds : UploadStory(r, u, "https://")
     \/ \E u \in UserIds : \E sid \in StoryIds : StartLikeStory(r, u, sid)

LikeStep(r) ==
  \/ LikeFindStory(r)
  \/ LikeFindLike(r)
  \/ LikeDelete(r)
  \/ LikeDecrement(r)
  \/ LikeCreate(r)
  \/ LikeIncrement(r)

\* likeStory requests on uploaded stories, up to MaxInFlight of them in
\* flight at once
NextLikes ==
  \/ \E r \in Slots : LikeStart(r)
  \/ \E r \in Slots : LikeStep(r)

SpecLikes == InitSeeded /\ [][NextLikes]_vars

FaultStart(r) ==
  /\ started < MaxFaultReqs
  /\ UNCHANGED <<authorization, client, likeLog>>
  /\ \/ \E u \in UserIds : UploadStory(r, u, "https://")
     \/ \E u \in UserIds : \E sid \in StoryIds : StartLikeStory(r, u, sid)
     \/ \E u \in UserIds : \E sid \in StoryIds : StartViewStory(r, u, sid)
     \/ \E raw \in {MobA, MobD} : StartSendOTP(r, raw)
     \/ \E raw \in {MobA, MobD} : \E code \in Codes : StartVerifyOTP(r, raw, code)
     \/ \E raw \in {MobA, MobD} : StartResendOTP(r, raw)
     \/ \E email \in {EmailA, EmailD} : \E raw \in {MobA, MobD} :
          StartSignup(r, email, 6, raw)

\* the clock stands still here, so no OTP is found expired
FaultStep(r) ==
  \/ SendFindUser(r)
  \/ SendDeleteMany(r)
  \/ SendCreate(r)
  \/ VerifyFind(r)
  \/ VerifyUpdate(r)
  \/ ResendDeleteMany(r)
  \/ ResendCreate(r)
  \/ SignupFindOtp(r)
  \/ SignupFindEmail(r)
  \/ SignupFindMobile(r)
  \/ SignupCreate(r)
  \/ SignupDeleteOtp(r)
  \/ ViewFindStory(r)
  \/ ViewFindView(r)
  \/ ViewCreate(r)
  \/ ViewIncrement(r)

\* the handlers that write more than once, each request run to completion
\* before the next starts, with database calls that can fail
NextFault ==
  \/ \E r \in Slots : AllIdle /\ FaultStart(r)
  \/ \E r \in Slots : FaultStep(r)
  \/ \E r \in Slots : LikeStep(r)
  \/ \E r \in Slots : DbWriteFails(r)

SpecFault == InitSeeded /\ [][NextFault]_vars

StoryStart(r) ==
  /\ started < MaxStoryReqs
  /\ UNCHANGED <<authorization, client, likeLog>>
  /\ \/ \E u \in UserIds : \E img \in ImageUrls : UploadStory(r, u, img)
     \/ \E u \in UserIds : \E sid \in StoryIds : StartLikeStory(r, u, sid)
     \/ \E u \in UserIds : \E sid \in StoryIds : StartViewStory(r, u, sid)
     \/ \E u \in UserIds : \E sid \in StoryIds : StartDeleteStory(r, u, sid)
     \/ \E u \in UserIds : CleanupExpiredStories(r, u)

StoryStep(r) ==
  \/ LikeFindStory(r)
  \/ LikeFindLike(r)
  \/ LikeDelete(r)
  \/ LikeDecrement(r)
  \/ LikeCreate(r)
  \/ LikeIncrement(r)
  \/ ViewFindStory(r)
  \/ ViewFindView(r)
  \/ ViewCreate(r)
  \/ ViewIncrement(r)
  \/ DeleteFindStory(r)
  \/ DeleteDelete(r)

\* story uploads, likes, views, deletes and cleanups, each request run to
\* completion before the next starts
NextStory ==
  \/ \E r \in Slots : AllIdle /\ StoryStart(r)
  \/ \E r \in Slots : StoryStep(r)
  \/ StoryClockTick

SpecStory == InitSeeded /\ [][NextStory]_vars

\* the seeded users after their updateUserLocation requests, if any: the
\* first has stored no location, each other one of NearbyLocations
InitNearby ==
  /\ now = 0
  /\ \E loc \in [{u.id : u \in SeedUsers} -> NearbyLocations] :
       /\ loc[1] = <<>>
       /\ users = {IF loc[u.id] = <<>> THEN u
                   ELSE [u EXCEPT !.lat = {loc[u.id][1]}, !.lon = {loc[u.id][2]}]
                   : u \in SeedUsers}
  /\ otps = {}
  /\ stories = {}
  /\ storyLikes = {}
  /\ storyViews = {}
  /\ viewedBy = {}
  /\ follows = EmptyBag
  /\ req = [r \in Slots |-> Idle]
  /\ resp = NoResp
  /\ nextId = Cardinality(SeedUsers) + 1
  /\ started = 0
  /\ authorization = <<>>
  /\ client = ClientIdle
  /\ likeLog = NoLikeLog

NearbyStart(r) ==
  /\ started < MaxNearbyReqs
  /\ UNCHANGED <<authorization, client, likeLog>>
  /\ \/ \E u \in UserIds : UploadStory(r, u, "https://")
     \/ \E u \in UserIds : \E q \in NearbyQueries : StartGetNearbyStories(r, u, q)

NearbyStep(r) ==
  \/ NearbyDiagnostic(r)
  \/ NearbyQuery(r)

\* nearby searches among story uploads, each request run to completion
\* before the next starts
NextNearby ==
  \/ \E r \in Slots : AllIdle /\ NearbyStart(r)
  \/ \E r \in Slots : NearbyStep(r)
  \/ NearbyClockTick

SpecNearby == InitNearby /\ [][NextNearby]_vars

\* next() of authenticate: the route's handler runs with req.user.id = u
ProtectedRoute(r, u) ==
  \/ UploadStory(r, u, "https://")
  \/ \E sid \in StoryIds : StartLikeStory(r, u, sid)
  \/ \E sid \in StoryIds : StartDeleteStory(r, u, sid)
  \/ CleanupExpiredStories(r, u)
  \/ \E loc \in Locations : UpdateUserLocation(r, u, loc)
  \/ \E t \in FollowTargets : StartFollowUser(r, u, t)
  \/ \E t \in FollowTargets : StartUnfollowUser(r, u, t)

\* a request to /stories or /follow: router.use(authenticate), then the route
AuthStart(r) ==
  /\ started < MaxAuthReqs
  /\ \E authHeader \in Headers :
       /\ authorization' = authHeader
       /\ UNCHANGED <<client, likeLog>>
       /\ IF Authenticate(authHeader).status # 0
          THEN AuthReject(r, authHeader)
          ELSE ProtectedRoute(r, Authenticate(authHeader).user)

AuthStep(r) ==
  \/ LikeFindStory(r)
  \/ LikeFindLike(r)
  \/ LikeDelete(r)
  \/ LikeDecrement(r)
  \/ LikeCreate(r)
  \/ LikeIncrement(r)
  \/ DeleteFindStory(r)
  \/ DeleteDelete(r)
  \/ FollowFindUser(r)
  \/ FollowFindFollow(r)
  \/ FollowCreate(r)
  \/ UnfollowFind(r)
  \/ UnfollowDelete(r)

\* requests to the protected routes with any Authorization header, each run
\* to completion before the next starts
NextAuth ==
  \/ \E r \in Slots : AllIdle /\ AuthStart(r)
  \/ \E r \in Slots : AuthStep(r)

SpecAuth == InitSeeded /\ [][NextAuth]_vars

\* the app calls a follow-service function: apiService.get with the token's
\* Authorization header, router.use(authenticate), then the route's handler
\* up to its first database call
ServiceCall(r, fn, authHeader, target) ==
  /\ authorization' = authHeader
  /\ UNCHANGED likeLog
  /\ client' = [client EXCEPT !.pc = "waiting", !.fn = fn, !.outcome = "none",
                              !.value = Undefined]
  /\ IF Authenticate(authHeader).status # 0
     THEN AuthReject(r, authHeader)
     ELSE LET u == Authenticate(authHeader).user
          IN  CASE fn = "checkFollowStatus" -> CheckFollowStatus(r, u, target)
                [] fn = "getFollowersCount" -> GetFollowersCount(r, u, target)
                [] fn = "getFollowingCount" -> GetFollowingCount(r, u, target)
                [] OTHER -> StartGetFollowingStories(r, u) /\ UNCHANGED resp

\* the answer arrives: ApiService.request, then the service function, hand
\* the result to the caller (checkFollowStatus and the two counts)
ServiceReturn ==
  /\ client.pc = "waiting"
  /\ client.fn # "getFollowingStories"
  /\ AllIdle
  /\ LET result == FollowService(client.fn, ApiServiceRequest(resp.status, ResponseBody(resp)))
     IN  client' = [client EXCEPT !.pc = "done", !.outcome = result.outcome,
                                 !.value = result.value, !.at = now]
  /\ UNCHANGED <<now, users, otps, stories, storyLikes, storyViews, viewedBy, follows, req, resp,
                 nextId, started, authorization, likeLog>>

\* loadFollowingStories: the thunk takes getFollowingStories' list, drops the
\* entries with expiresAt <= Date.now(), and the fulfilled reducer stores the
\* rest in state.followingStories; a rejected thunk leaves the list alone
LoadFollowingStories ==
  /\ client.pc = "waiting"
  /\ client.fn = "getFollowingStories"
  /\ AllIdle
  /\ LET result == FollowService(client.fn, ApiServiceRequest(resp.status, ResponseBody(resp)))
     IN  client' = [client EXCEPT
                      !.pc = "done", !.outcome = result.outcome, !.value = result.value,
                      !.at = now,
                      !.followingStories =
                         IF result.outcome = "returned"
                         THEN {story \in result.value.val : story.expiresAt > now}
                         ELSE @]
  /\ UNCHANGED <<now, users, otps, stories, storyLikes, storyViews, viewedBy, follows, req, resp,
                 nextId, started, authorization, likeLog>>

\* the tokens the app may hold: a user's, or one that no longer verifies
ClientHeaders == {HeaderUser1, HeaderUser2, HeaderBadToken}

ClientStart(r) ==
  /\ started < MaxClientReqs
  /\ client.pc # "waiting"
  /\ \/ /\ UNCHANGED <<authorization, client, likeLog>>
        /\ \/ \E u \in UserIds : UploadStory(r, u, "https://")
           \/ \E u \in UserIds : \E t \in UserIds : StartFollowUser(r, u, t)
     \/ \E fn \in ServiceFns : \E authHeader \in ClientHeaders :
          \E target \in UserIds \cup NoSuchUser : ServiceCall(r, fn, authHeader, target)

ClientStep(r) ==
  \/ FollowFindUser(r)
  \/ FollowFindFollow(r)
  \/ FollowCreate(r)
  \/ FollowingFindFollows(r)
  \/ FollowingFindStories(r)

\* the app's follow reads among follows and story uploads, each request run
\* to completion and its answer consumed before the next starts
NextClient ==
  \/ \E r \in Slots : AllIdle /\ ClientStart(r)
  \/ \E r \in Slots : ClientStep(r)
  \/ ServiceReturn
  \/ LoadFollowingStories
  \/ StoryClockTick

SpecClient == InitSeeded /\ [][NextClient]_vars

\* the app dispatches likeStory(storyId): apiService.post with the token's
\* Authorization header, router.use(authenticate), then the backend's
\* likeStory up to its first database call
LikeStoryCall(r, authHeader, sid) ==
  /\ authorization' = authHeader
  /\ UNCHANGED likeLog
  /\ client' = [client EXCEPT !.pc = "waiting", !.fn = "likeStory", !.outcome = "none",
                              !.value = Undefined]
  /\ IF Authenticate(authHeader).status # 0
     THEN AuthReject(r, authHeader)
     ELSE StartLikeStory(r, Authenticate(authHeader).user, sid)

\* the answer arrives: ApiService.request, storyService.likeStory, then the
\* thunk is fulfilled or rejected
LikeStoryThunk ==
  /\ client.pc = "waiting"
  /\ client.fn = "likeStory"
  /\ AllIdle
  /\ LET result == LikeStoryPayload(resp.story,
                       ServiceLikeStory(ApiServiceRequest(resp.status, ResponseBody(resp))))
     IN  client' = [client EXCEPT !.pc = "done", !.outcome = result.outcome,
                                 !.value = result.value, !.at = now]
  /\ UNCHANGED <<now, users, otps, stories, storyLikes, storyViews, viewedBy, follows, req, resp,
                 nextId, started, authorization, likeLog>>

ClientLikeStart(r) ==
  /\ started < MaxClientLikeReqs
  /\ client.pc # "waiting"
  /\ \/ /\ UNCHANGED <<authorization, client, likeLog>>
        /\ \E u \in UserIds : UploadStory(r, u, "https://")
     \/ \E authHeader \in ClientHeaders : \E sid \in StoryIds :
          LikeStoryCall(r, authHeader, sid)

\* the app's like requests on uploaded stories, each request run to
\* completion and its answer consumed before the next starts
NextClientLike ==
  \/ \E r \in Slots : AllIdle /\ ClientLikeStart(r)
  \/ \E r \in Slots : LikeStep(r)
  \/ LikeStoryThunk
  \/ StoryClockTick

SpecClientLike == InitSeeded /\ [][NextClientLike]_vars

FollowingStart(r) ==
  /\ started < MaxFollowingReqs
  /\ UNCHANGED <<authorization, client, likeLog>>
  /\ \/ \E u \in UserIds : UploadStory(r, u, "https://")
     \/ \E u \in UserIds : \E t \in UserIds : StartFollowUser(r, u, t)
     \/ \E u \in UserIds : \E t \in UserIds : StartUnfollowUser(r, u, t)
     \/ \E u \in UserIds : StartGetFollowingStories(r, u)

FollowingStep(r) ==
  \/ FollowFindUser(r)
  \/ FollowFindFollow(r)
  \/ FollowCreate(r)
  \/ UnfollowFind(r)
  \/ UnfollowDelete(r)
  \/ FollowingFindFollows(r)
  \/ FollowingFindStories(r)

\* getFollowingStories among follows, unfollows and story uploads, each
\* request run to completion before the next starts
NextFollowing ==
  \/ \E r \in Slots : AllIdle /\ FollowingStart(r)
  \/ \E r \in Slots : FollowingStep(r)
  \/ StoryClockTick

SpecFollowing == InitSeeded /\ [][NextFollowing]_vars

ToggleStart(r) ==
  /\ started < MaxToggleReqs
  /\ UNCHANGED <<authorization, client>>
  /\ \/ UNCHANGED likeLog /\ \E u \in UserIds : UploadStory(r, u, "https://")
     \/ LogLikeStory /\ \E u \in UserIds : \E sid \in StoryIds : StartLikeStory(r, u, sid)

\* likeStory requests on uploaded stories, each run to completion before the
\* next starts, with the history of the last two
NextToggle ==
  \/ \E r \in Slots : AllIdle /\ ToggleStart(r)
  \/ \E r \in Slots : LikeStep(r)
  \/ StoryClockTick

SpecToggle == InitSeeded /\ [][NextToggle]_vars

\* the HTTP statuses and the bodies a server or a proxy in front of it may
\* send, as JSON.parse delivers them
ApiStatuses == {200, 201, 400, 404, 500}
ApiBodies ==
  {Unparseable, JNull, JObj(<<>>),
   JObj([success |-> JBool(TRUE), data |-> JObj([count |-> JNum(1)])]),
   JObj([count |-> JNum(1)]),
   JObj([success |-> JBool(FALSE),
         error |-> JObj([message |-> JStr("Story not found"), code |-> JStr("NOT_FOUND")])]),
   JObj([success |-> JBool(FALSE), error |-> JObj([message |-> JStr("Story not found")])]),
   JObj([message |-> JStr("Bad gateway")])}

\* the messages of the errors fetch rejects with
FetchErrors == {"Network request failed", "Failed to fetch", "socket hang up"}

\* ApiService.request up to its await fetch: setTimeout arms the abort timer
ApiRequest ==
  /\ started < MaxApiCalls
  /\ client.pc \in {"idle", "done"}
  /\ started' = started + 1
  /\ client' = [client EXCEPT !.pc = "fetching", !.fn = "request", !.outcome = "none",
                              !.value = Undefined, !.timer = "armed", !.fetched = NoFetch]
  /\ UNCHANGED <<now, users, otps, stories, storyLikes, storyViews, viewedBy, follows, req, resp,
                 nextId, authorization, likeLog>>

\* the timer fires: controller.abort() makes the pending fetch reject with
\* an AbortError
ApiTimeout ==
  /\ client.pc = "fetching"
  /\ client.timer = "armed"
  /\ client' = [client EXCEPT !.pc = "caught", !.timer = "fired",
                              !.fetched = [NoFetch EXCEPT !.kind = "AbortError"]]
  /\ UNCHANGED <<now, users, otps, stories, storyLikes, storyViews, viewedBy, follows, req, resp,
                 nextId, started, authorization, likeLog>>

\* fetch rejects: no connection
ApiFetchRejects ==
  /\ client.pc = "fetching"
  /\ \E message \in FetchErrors :
       client' = [client EXCEPT !.pc = "caught",
                                !.fetched = [NoFetch EXCEPT !.kind = "TypeError",
                                                            !.message = message]]
  /\ UNCHANGED <<now, users, otps, stories, storyLikes, storyViews, viewedBy, follows, req, resp,
                 nextId, started, authorization, likeLog>>

\* fetch resolves with a response, then clearTimeout(timeoutId)
ApiFetchResolves ==
  /\ client.pc = "fetching"
  /\ \E status \in ApiStatuses : \E body \in ApiBodies :
       client' = [client EXCEPT !.pc = "reading", !.timer = "cleared",
                                !.fetched = [NoFetch EXCEPT !.kind = "response",
                                                            !.status = status,
                                                            !.body = body]]
  /\ UNCHANGED <<now, users, otps, stories, storyLikes, storyViews, viewedBy, follows, req, resp,
                 nextId, started, authorization, likeLog>>

\* await response.text(), JSON.parse and the rest of the try block
ApiReadBody ==
  /\ client.pc = "reading"
  /\ LET value == ApiServiceRequest(client.fetched.status, client.fetched.body)
     IN  client' = [client EXCEPT
                      !.pc = "done", !.value = value,
                      !.outcome = IF value.kind = "rejected" THEN "rejected" ELSE "resolved"]
  /\ UNCHANGED <<now, users, otps, stories, storyLikes, storyViews, viewedBy, follows, req, resp,
                 nextId, started, authorization, likeLog>>

\* the outer catch block: clearTimeout(timeoutId), then the failure object
ApiCatch ==
  /\ client.pc = "caught"
  /\ client' = [client EXCEPT
                  !.pc = "done", !.timer = "cleared", !.outcome = "resolved",
                  !.value = CatchError(client.fetched.kind, client.fetched.message)]
  /\ UNCHANGED <<now, users, otps, stories, storyLikes, storyViews, viewedBy, follows, req, resp,
                 nextId, started, authorization, likeLog>>

\* calls of ApiService.request, one after another
NextApi ==
  \/ ApiRequest
  \/ ApiTimeout
  \/ ApiFetchRejects
  \/ ApiFetchResolves
  \/ ApiReadBody
  \/ ApiCatch

SpecApi == InitSeeded /\ [][NextApi]_vars

----------------------------------------------------------------------------
(* The mobile app's AuthProvider *)

\* the token and the user of the session the device holds, and the token a
\* new signIn is answered with
OldToken == 1
NewToken == 2
TheUser == 1

\* the context moves on to a; calls counts a call of one of its methods
SetAuth(a, calls) ==
  /\ client' = [client EXCEPT !.auth = a]
  /\ started' = started + calls
  /\ UNCHANGED <<now, users, otps, stories, storyLikes, storyViews, viewedBy, follows, req, resp,
                 nextId, authorization, likeLog>>

\* checkAuth is called, on mount by useEffect and later from the tabs of a
\* signed-in user (after handleSave, when the edit-profile modal closes):
\* setIsLoading(true), up to its first await
CheckAuthStart ==
  /\ started < MaxAuthCalls
  /\ \/ client.auth.check.pc = "idle"
     \/ client.auth.check.pc = "done" /\ IsAuthenticated(client.auth)
  /\ SetAuth([client.auth EXCEPT !.isLoading = TRUE,
                                 !.check = [NoCheckAuth EXCEPT !.pc = "getToken"]], 1)

\* await SecureStore.getItemAsync(TOKEN_KEY)
CheckAuthGetToken ==
  /\ client.auth.check.pc = "getToken"
  /\ SetAuth([client.auth EXCEPT !.check.storedToken = client.auth.store.token,
                                 !.check.pc = "getUser"], 0)

\* await loadUserData(), then if (storedToken && storedUser)
CheckAuthGetUser ==
  /\ client.auth.check.pc = "getUser"
  /\ SetAuth([client.auth EXCEPT
                !.check.storedUser = client.auth.store.user,
                !.check.pc = IF client.auth.check.storedToken # 0 /\ client.auth.store.user # 0
                             THEN "getProfile" ELSE "clearToken"], 0)

\* await authService.getProfile(storedToken): the server accepts the token
\* or not (expired token, deleted user, no connection)
CheckAuthGetProfile ==
  /\ client.auth.check.pc = "getProfile"
  /\ \E ok \in BOOLEAN :
       SetAuth([client.auth EXCEPT !.check.accepted = ok,
                                   !.check.pc = IF ok THEN "storeUser" ELSE "verifyToken"], 0)

\* await storeUserData(freshUser), then setToken(storedToken),
\* setUser(freshUser) and the finally block
CheckAuthStoreUser ==
  /\ client.auth.check.pc = "storeUser"
  /\ SetAuth([client.auth EXCEPT !.store.user = TheUser,
                                 !.token = client.auth.check.storedToken,
                                 !.user = TheUser,
                                 !.isLoading = FALSE,
                                 !.check.pc = "done"], 0)

\* mutant: a token the server turns down leaves the session as it is
CheckAuthVerifyTokenNoClear ==
  /\ client.auth.check.pc = "verifyToken"
  /\ \E ok \in BOOLEAN :
       IF ok
       THEN SetAuth([client.auth EXCEPT !.check.accepted = TRUE,
                                        !.token = client.auth.check.storedToken,
                                        !.user = client.auth.check.storedUser,
                                        !.isLoading = FALSE,
                                        !.check.pc = "done"], 0)
       ELSE SetAuth([client.auth EXCEPT !.isLoading = FALSE, !.check.pc = "done"], 0)

\* await authService.verifyToken(storedToken): on success setToken,
\* setUser(storedUser) and the finally block, otherwise on to clearAuth
CheckAuthVerifyToken ==
  /\ client.auth.check.pc = "verifyToken"
  /\ \E ok \in BOOLEAN :
       IF ok
       THEN SetAuth([client.auth EXCEPT !.check.accepted = TRUE,
                                        !.token = client.auth.check.storedToken,
                                        !.user = client.auth.check.storedUser,
                                        !.isLoading = FALSE,
                                        !.check.pc = "done"], 0)
       ELSE SetAuth([client.auth EXCEPT !.check.pc = "clearToken"], 0)

\* clearAuth in checkAuth: await SecureStore.deleteItemAsync(TOKEN_KEY)
CheckAuthClearToken ==
  /\ client.auth.check.pc = "clearToken"
  /\ SetAuth([client.auth EXCEPT !.store.token = 0, !.check.pc = "clearUser"], 0)

\* await SecureStore.deleteItemAsync(USER_KEY), setToken(null),
\* setUser(null), then the finally block
CheckAuthClearUser ==
  /\ client.auth.check.pc = "clearUser"
  /\ SetAuth([client.auth EXCEPT !.store.user = 0, !.token = 0, !.user = 0,
                                 !.isLoading = FALSE, !.check.pc = "done"], 0)

\* signOut is called from the profile tab
SignOutStart ==
  /\ started < MaxAuthCalls
  /\ client.auth.out = "idle"
  /\ IsAuthenticated(client.auth)
  /\ SetAuth([client.auth EXCEPT !.out = "clearToken"], 1)

\* clearAuth in signOut: await SecureStore.deleteItemAsync(TOKEN_KEY)
SignOutClearToken ==
  /\ client.auth.out = "clearToken"
  /\ SetAuth([client.auth EXCEPT !.store.token = 0, !.out = "clearUser"], 0)

\* await SecureStore.deleteItemAsync(USER_KEY), setToken(null),
\* setUser(null), router.replace("/auth/signin"): signOut has completed
SignOutClearUser ==
  /\ client.auth.out = "clearUser"
  /\ SetAuth([client.auth EXCEPT !.store.user = 0, !.token = 0, !.user = 0,
                                 !.out = "idle", !.signedOut = TRUE], 0)

\* signIn is called from the sign-in screen, which the index route opens
\* once isLoading is false and isAuthenticated is false
SignInStart ==
  /\ started < MaxAuthCalls
  /\ client.auth.in = "idle"
  /\ client.auth.check.pc = "done"
  /\ ~client.auth.isLoading
  /\ ~IsAuthenticated(client.auth)
  /\ SetAuth([client.auth EXCEPT !.in = "signIn"], 1)

\* await authService.signIn: the server accepts the credentials or the
\* call throws
SignInAnswer ==
  /\ client.auth.in = "signIn"
  /\ \E ok \in BOOLEAN :
       IF ok
       THEN SetAuth([client.auth EXCEPT !.in = "storeToken", !.signedOut = FALSE], 0)
       ELSE SetAuth([client.auth EXCEPT !.in = "idle"], 0)

\* await SecureStore.setItemAsync(TOKEN_KEY, authToken)
SignInStoreToken ==
  /\ client.auth.in = "storeToken"
  /\ SetAuth([client.auth EXCEPT !.store.token = NewToken, !.in = "storeUser"], 0)

\* await storeUserData(userData), setToken, setUser, router.replace("/(tabs)")
SignInStoreUser ==
  /\ client.auth.in = "storeUser"
  /\ SetAuth([client.auth EXCEPT !.store.user = TheUser, !.token = NewToken,
                                 !.user = TheUser, !.in = "idle"], 0)

\* the app starts with what an earlier session left in SecureStore
InitAuthContext ==
  /\ now = 0
  /\ users = SeedUsers
  /\ otps = {}
  /\ stories = {}
  /\ storyLikes = {}
  /\ storyViews = {}
  /\ viewedBy = {}
  /\ follows = EmptyBag
  /\ req = [r \in Slots |-> Idle]
  /\ resp = NoResp
  /\ nextId = Cardinality(SeedUsers) + 1
  /\ started = 0
  /\ authorization = <<>>
  /\ \E storedToken \in {0, OldToken} : \E storedUser \in {0, TheUser} :
       client = [ClientIdle EXCEPT !.auth = AuthContext(storedToken, storedUser)]
  /\ likeLog = NoLikeLog

CheckAuthStep ==
  \/ CheckAuthGetToken
  \/ CheckAuthGetUser
  \/ CheckAuthGetProfile
  \/ CheckAuthStoreUser
  \/ CheckAuthVerifyToken
  \/ CheckAuthClearToken
  \/ CheckAuthClearUser

SignStep ==
  \/ SignOutClearToken
  \/ SignOutClearUser
  \/ SignInAnswer
  \/ SignInStoreToken
  \/ SignInStoreUser

\* the methods of the context called at any time: their awaits interleave
NextAuthContext ==
  \/ CheckAuthStart
  \/ SignOutStart
  \/ SignInStart
  \/ CheckAuthStep
  \/ SignStep

SpecAuthContext == InitAuthContext /\ [][NextAuthContext]_vars

\* no method of the context is running
AuthContextQuiet ==
  /\ client.auth.check.pc \in {"idle", "done"}
  /\ client.auth.out = "idle"
  /\ client.auth.in = "idle"

\* the methods of the context called one after another
NextCheckAuth ==
  \/ AuthContextQuiet /\ CheckAuthStart
  \/ AuthContextQuiet /\ SignOutStart
  \/ AuthContextQuiet /\ SignInStart
  \/ CheckAuthStep
  \/ SignStep

\* every await of checkAuth settles: SecureStore answers, and
\* ApiService.request resolves by its timeout at the latest
SpecCheckAuth == InitAuthContext /\ [][NextCheckAuth]_vars /\ WF_vars(CheckAuthStep)

ProfileStart(r) ==
  /\ started < MaxProfileReqs
  /\ UNCHANGED <<authorization, client, likeLog>>
  /\ \/ \E u \in UserIds : \E field \in CategoryFields : SaveCategories(r, u, field)
     \/ \E u \in UserIds : \E body \in ProfileBodies : UpdateProfile(r, u, body)

\* saveCategories and updateProfile requests, one after another
NextProfile == \E r \in Slots : AllIdle /\ ProfileStart(r)

SpecProfile == InitSeeded /\ [][NextProfile]_vars

----------------------------------------------------------------------------
(* Properties *)

VerifiedOtps(mobile) == {o \in otps : o.mobile = mobile /\ o.verified}

\* slot r sends its response in this step
Ends(r, op) == req[r].op = op /\ req'[r].pc = "idle"

\* C1: signup creates a User for mobile m only if an Otp row for the
\* normalized m with verified = true exists when it runs; when none exists
\* it answers 400 'Mobile number must be verified before signup' and
\* creates no User.
C1_SignupNeedsVerifiedOtp ==
  [][/\ \A u \in users' \ users :
          \E r \in Slots :
            /\ req[r].op = "signup"
            /\ u.mobile = NormalizeMobileNumber(req[r].raw)
            /\ VerifiedOtps(NormalizeMobileNumber(req[r].raw)) # {}
     /\ \A r \in Slots :
          (/\ req[r].pc = "signup_findOtp"
           /\ req'[r] # req[r]
           /\ VerifiedOtps(NormalizeMobileNumber(req[r].raw)) = {})
          => /\ Ends(r, "signup")
             /\ resp'.op = "signup"
             /\ resp'.status = 400
             /\ resp'.data = "Mobile number must be verified before signup"
             /\ users' = users
    ]_vars

\* a signup has created a User and answered 201
C1_Witness ==
  /\ resp.op = "signup"
  /\ resp.status = 201
  /\ \E u \in users : u.id = resp.user /\ u.mobile = MobA

\* C9: when a signup for mobile m succeeds no verified Otp row for m
\* remains and the row it consumed is deleted; between requests a verified
\* row of a registered mobile was issued after that user was created.
C9_SignupConsumesOtp ==
  /\ [][\A r \in Slots :
          (Ends(r, "signup") /\ resp'.status = 201)
          => /\ {o \in otps' : o.mobile = req[r].mobile /\ o.verified} = {}
             /\ \A o \in otps' : o.id \notin req[r].snap
       ]_vars
  /\ [](AllIdle =>
          \A u \in users : \A o \in VerifiedOtps(u.mobile) : o.id > u.id)

\* a signup has succeeded: the row it consumed is recorded in the response
\* and no verified row of its mobile is left
C9_Witness ==
  /\ resp.op = "signup"
  /\ resp.status = 201
  /\ resp.data # {}
  /\ VerifiedOtps(resp.mobile) = {}
  /\ UserByMobile(resp.mobile) # {}

\* C10: when a sendOTP or resendOTP for mobile m completes, with no other
\* OTP request interleaved, exactly one Otp row exists for m, it is
\* unverified and it is the row just created; no earlier row of m is left.
C10_SendLeavesOneFreshOtp ==
  [][\A r \in Slots :
       ((Ends(r, "sendOTP") \/ Ends(r, "resendOTP")) /\ resp'.status = 200)
       => /\ Cardinality({o \in otps' : o.mobile = req[r].mobile}) = 1
          /\ \A o \in otps' :
               o.mobile = req[r].mobile
               => ~o.verified /\ o.id = nextId /\ o \notin otps
          /\ \A o \in otps : o.mobile = req[r].mobile => o \notin otps'
    ]_vars

\* a send has replaced a verified row of the mobile by a fresh unverified one
C10_Witness ==
  /\ resp.op \in {"sendOTP", "resendOTP"}
  /\ resp.status = 200
  /\ \E o \in otps : o.mobile = resp.mobile /\ ~o.verified /\ o.id > 1

\* C2: with likeStory requests run one after another, every story has at
\* most one StoryLike row per (story, user), and between requests its
\* likesCount equals the number of its StoryLike rows.
C2_LikesCountMatchesRows ==
  /\ \A l1 \in storyLikes : \A l2 \in storyLikes :
       (l1.storyId = l2.storyId /\ l1.userId = l2.userId) => l1 = l2
  /\ AllIdle =>
       \A s \in stories :
         s.likesCount = Cardinality({l \in storyLikes : l.storyId = s.id})

\* two users have liked the same story
C2_Witness ==
  /\ AllIdle
  /\ resp.op = "likeStory"
  /\ \E s \in stories :
       s.likesCount = 2 /\ Cardinality({l \in storyLikes : l.storyId = s.id}) = 2

\* C5: with viewStory requests run one after another, a story's viewsCount
\* equals the number of distinct users other than its owner whose view was
\* answered 200; a repeated view and a view by the owner change neither
\* viewsCount nor the StoryView rows, and viewsCount never decreases.
C5_ViewsCountDistinctViewers ==
  /\ [](AllIdle =>
          \A s \in stories :
            s.viewsCount =
              Cardinality({u \in UserIds : <<s.id, u>> \in viewedBy /\ u # s.userId}))
  /\ [][/\ \A r \in Slots :
             (/\ req[r].op = "viewStory"
              /\ req'[r] # req[r]
              /\ \/ <<req[r].story, req[r].user>> \in viewedBy
                 \/ \E s \in StoryById(req[r].story) : s.userId = req[r].user)
             => stories' = stories /\ storyViews' = storyViews
        /\ \A s \in stories : \A t \in stories' :
             t.id = s.id => t.viewsCount >= s.viewsCount
       ]_vars

\* a user other than the owner has viewed a story a second time: the
\* request wrote nothing and the story still counts one view
C5_Witness ==
  /\ AllIdle
  /\ resp.op = "viewStory"
  /\ resp.status = 200
  /\ resp.writes = 0
  /\ \E s \in StoryById(resp.story) : s.userId # resp.user /\ s.viewsCount = 1

\* C8: a story row disappears only in the delete of a deleteStory called by
\* its owner or in a cleanupExpiredStories whose time is after the story's
\* expiresAt; deleteStory by another user answers 403 and removes nothing.
C8_StoryRemovedOnlyByOwnerOrCleanup ==
  [][/\ \A s \in stories :
          (\A t \in stories' : t.id # s.id)
          => \/ \E r \in Slots :
                  /\ req[r].pc = "delete_delete"
                  /\ Ends(r, "deleteStory")
                  /\ resp'.status = 200
                  /\ req[r].story = s.id
                  /\ req[r].user = s.userId
             \/ /\ started' = started + 1
                /\ resp'.op = "cleanupExpiredStories"
                /\ resp'.at = now
                /\ s.expiresAt < now
     /\ \A r \in Slots :
          (/\ req[r].pc = "delete_findStory"
           /\ req'[r] # req[r]
           /\ \E s \in StoryById(req[r].story) : s.userId # req[r].user)
          => /\ Ends(r, "deleteStory")
             /\ resp'.status = 403
             /\ stories' = stories
    ]_vars

\* a cleanup has removed an expired story and kept one that expires at the
\* very time of the cleanup
C8_Witness ==
  /\ resp.op = "cleanupExpiredStories"
  /\ resp.data = 1
  /\ \E s \in stories : s.expiresAt = resp.at

\* C3: a request of a handler that writes more than once (likeStory,
\* viewStory, signup, sendOTP, resendOTP) ends with all of its writes
\* persisted or with none: a failed request has written nothing.
C3_RequestsAtomic ==
  resp.op \in {"likeStory", "viewStory", "signup", "sendOTP", "resendOTP"}
  => /\ resp.status >= 400 => resp.writes = 0
     /\ resp.status < 400 => resp.writes \in {0, 2}

\* C4: under any interleaving of likeStory requests likesCount is never
\* negative, and whenever no request is in flight it equals the number of
\* StoryLike rows of the story.
C4_LikesCountConcurrent ==
  /\ \A s \in stories : s.likesCount >= 0
  /\ AllIdle =>
       \A s \in stories :
         s.likesCount = Cardinality({l \in storyLikes : l.storyId = s.id})

\* C6: the Follow table never holds two rows for one ordered (followerId,
\* followingId) pair, also with followUser requests interleaved, and a
\* followUser that reaches its lookup or its insert while the pair exists
\* is rejected and leaves the table unchanged.
C6_FollowPairUnique ==
  /\ [](\A p \in DOMAIN follows : follows[p] <= 1)
  /\ [][\A r \in Slots :
          (/\ req[r].pc \in {"follow_findFollow", "follow_create"}
           /\ req'[r] # req[r]
           /\ FollowCount(req[r].user, req[r].target) > 0)
          => /\ Ends(r, "followUser")
             /\ resp'.status >= 400
             /\ follows' = follows
       ]_vars

\* of two followUser requests racing for one pair, the second insert was
\* rejected by the unique key and the pair has its one row
C6_Witness ==
  /\ resp.op = "followUser"
  /\ resp.status = 500
  /\ FollowCount(resp.user, resp.target) = 1

\* C7: getUserStories, getFollowingStories and getNearbyStories return no
\* story whose expiresAt is at or before the time of the request, cleanup
\* or no cleanup.
C7_ReadsHideExpired ==
  /\ (resp.op \in {"getUserStories", "getFollowingStories"} /\ resp.status = 200)
     => \A s \in resp.data : s.expiresAt > resp.at
  /\ (resp.op = "getNearbyStories" /\ resp.status = 200)
     => \A i \in DOMAIN resp.data : resp.data[i].expiresAt > resp.at

\* getFollowingStories has left out a followed user's story that expired at
\* the very time of the request and is still in the table
C7_Witness ==
  /\ resp.op = "getFollowingStories"
  /\ resp.status = 200
  /\ \E s \in stories :
       /\ s.expiresAt = resp.at
       /\ FollowCount(resp.user, s.userId) > 0
       /\ s \notin resp.data

\* C11: verifyOTP marks a row verified only if that row is the most
\* recently created unverified row of the mobile, the submitted code equals
\* its code and the time of the check is not after its expiresAt, which is
\* 10 minutes after the code was generated; when the row has expired
\* verifyOTP deletes it and answers 400 without verifying anything.
C11_VerifyChecksCodeAndExpiry ==
  [][/\ \A r \in Slots :
          (req[r].pc = "verify_find" /\ req'[r].pc = "verify_update")
          => \E o \in OtpFindFirst(req[r].mobile, FALSE) :
               /\ req'[r].snap = {o.id}
               /\ o.code = req[r].code
               /\ now <= o.expiresAt
     /\ \A o \in otps : \A p \in otps' :
          (p.id = o.id /\ p.verified /\ ~o.verified)
          => \E r \in Slots :
               /\ req[r].pc = "verify_update"
               /\ Ends(r, "verifyOTP")
               /\ req[r].snap = {o.id}
               /\ o.code = req[r].code
               /\ o.mobile = NormalizeMobileNumber(req[r].raw)
     /\ \A r \in Slots :
          (/\ req[r].pc = "verify_find"
           /\ req'[r] # req[r]
           /\ \E o \in OtpFindFirst(req[r].mobile, FALSE) : now > o.expiresAt)
          => /\ req'[r].pc = "verify_deleteExpired"
             /\ otps' = otps
     /\ \A r \in Slots :
          (req[r].pc = "verify_deleteExpired" /\ req'[r] # req[r])
          => /\ Ends(r, "verifyOTP")
             /\ resp'.status = 400
             /\ resp'.data = "OTP has expired. Please request a new one"
             /\ \A o \in otps' : o.id \notin req[r].snap
             /\ \A o \in otps' : o.verified => o \in otps
     /\ \A r \in Slots :
          (req[r].pc \in {"send_findUser", "resend_deleteMany"}
           /\ req'[r].pc \in {"send_deleteMany", "resend_create"})
          => req'[r].at = now + 10
     /\ \A o \in otps' \ otps :
          ~o.verified => \E r \in Slots : o.expiresAt = req[r].at /\ o.id = nextId
    ]_vars

\* the last response is a getNearbyStories answer with its list, Returned
NearbyAnswered == resp.op = "getNearbyStories" /\ resp.status = 200
Returned == {resp.data[i] : i \in DOMAIN resp.data}

\* the radius of the last getNearbyStories request, in kilometres
RequestedRadiusKm == IF resp.geo[3] = 0 THEN 10 ELSE resp.geo[3]

\* C12: every entry of a getNearbyStories answer belongs to a user other
\* than the requester whose latitude and longitude are both stored and lie
\* within [lat - r/111, lat + r/111] x [lon - r/(111 cos lat), lon + r/(111
\* cos lat)], r being 10 when no radius is given, and who has a story that
\* is not expired at the time of the request; a user without a stored
\* location has no entry.
C12_NearbyInsideBox ==
  NearbyAnswered =>
    /\ \A e \in Returned :
         \E p \in users :
           /\ p.id = e.userId
           /\ p.id # resp.user
           /\ p.lat # {} /\ p.lon # {}
           /\ \A la \in p.lat :
                /\ 111 * (la - resp.geo[1]) <= RequestedRadiusKm * 100
                /\ 111 * (resp.geo[1] - la) <= RequestedRadiusKm * 100
           /\ \A lo \in p.lon :
                \* cos(0) = 1 and cos(60 degrees) = 1/2
                LET inverseCos == IF resp.geo[1] = 0 THEN 1 ELSE 2
                IN  /\ 111 * (lo - resp.geo[2]) <= RequestedRadiusKm * 100 * inverseCos
                    /\ 111 * (resp.geo[2] - lo) <= RequestedRadiusKm * 100 * inverseCos
           /\ \E st \in stories : st.userId = p.id /\ st.expiresAt > resp.at
    /\ \A p \in users :
         (p.lat = {} \/ p.lon = {}) => \A e \in Returned : e.userId # p.id

\* a search around <<0, 0>> with the default radius has returned the user at
\* <<0.09, 0.09>> and left out the user at <<0, 0.10>>, whose story is active
C12_Witness ==
  /\ NearbyAnswered
  /\ resp.geo = <<0, 0, 0>>
  /\ \E p \in users : \E e \in Returned :
       p.lat = {9} /\ p.lon = {9} /\ e.userId = p.id
  /\ \E p \in users :
       /\ p.lat = {0} /\ p.lon = {10}
       /\ p.id # resp.user
       /\ ActiveStoriesOf(p.id, resp.at) # {}
       /\ \A e \in Returned : e.userId # p.id

\* C13: a getNearbyStories answer has exactly one entry per user that
\* appears in it, and the entry is a story of that user that is not expired
\* at the time of the request and has the greatest createdAt among the
\* user's stories that are not expired.
C13_NearbyLatestStoryPerUser ==
  [][\A r \in Slots :
       (req[r].pc = "nearby_query" /\ Ends(r, "getNearbyStories"))
       => \A i \in DOMAIN resp'.data :
            LET e == resp'.data[i]
            IN  /\ \A j \in DOMAIN resp'.data : resp'.data[j].userId = e.userId => j = i
                /\ \E st \in stories :
                     /\ st.id = e.id
                     /\ st.userId = e.userId
                     /\ st.createdAt = e.createdAt
                     /\ st.expiresAt > req[r].at
                     /\ \A other \in stories :
                          (other.userId = st.userId /\ other.expiresAt > req[r].at)
                          => other.createdAt <= st.createdAt
    ]_vars

\* the user of an entry has an older story that is not expired either
C13_Witness ==
  /\ NearbyAnswered
  /\ \E e \in Returned : \E st \in stories :
       /\ st.userId = e.userId
       /\ st.id # e.id
       /\ st.expiresAt > resp.at
       /\ st.createdAt < e.createdAt

\* C14: the list of a getNearbyStories answer is in non-decreasing order of
\* distance, the distance of an entry being that between the requested
\* coordinates and the stored location of the entry's user.
C14_NearbySortedByDistance ==
  NearbyAnswered =>
    /\ \A i \in DOMAIN resp.data : \A j \in DOMAIN resp.data :
         i < j => resp.data[i].distance <= resp.data[j].distance
    /\ \A e \in Returned : \E p \in users :
         /\ p.id = e.userId
         /\ \E la \in p.lat : \E lo \in p.lon :
              e.distance = HaversineTenths(resp.geo, la, lo)

\* an answer with two entries at different distances
C14_Witness ==
  /\ NearbyAnswered
  /\ Len(resp.data) = 2
  /\ resp.data[1].distance < resp.data[2].distance

\* C15: every entry of a getNearbyStories answer has a distance from the
\* requested coordinates of at most the requested radius, 10 km when no
\* radius is given (distances are in tenths of a kilometre).
C15_NearbyWithinRadius ==
  NearbyAnswered =>
    \A e \in Returned : e.distance <= RequestedRadiusKm * 10

\* the header has the form 'Bearer <token>' with a token that verifies
HeaderAccepted(h) ==
  /\ Len(h) > 7
  /\ <<h[1], h[2], h[3], h[4], h[5], h[6], h[7]>> = <<"B", "e", "a", "r", "e", "r", " ">>
  /\ VerifyToken(SubSeq(h, 8, Len(h))) # 0

Tables == <<users, otps, stories, storyLikes, storyViews, follows>>

\* C16: a request to a route under /stories or /follow reaches its handler
\* only if its Authorization header is 'Bearer <token>' with a token that
\* verifies, and the handler then runs as the token's user; with any other
\* header the answer is 401, no handler runs and no table changes; so every
\* step of a handler and every write follows an accepted header.
C16_ProtectedRoutesNeedBearerToken ==
  [][/\ started' = started + 1 =>
          IF HeaderAccepted(authorization')
          THEN LET u == VerifyToken(SubSeq(authorization', 8, Len(authorization')))
               IN  \/ \E r \in Slots :
                        /\ req[r].pc = "idle" /\ req'[r].pc # "idle"
                        /\ req'[r].user = u
                   \/ /\ req' = req
                      /\ resp'.op \notin {"none", "authenticate"}
                      /\ resp'.user = u
          ELSE /\ resp'.op = "authenticate"
               /\ resp'.status = 401
               /\ resp'.header = authorization'
               /\ req' = req
               /\ Tables' = Tables
     /\ (Tables' # Tables \/ \E r \in Slots : req'[r].pc # "idle" \/ req[r].pc # "idle")
        => HeaderAccepted(authorization')
    ]_vars

\* after a request that was let through and wrote a story, a request whose
\* header has the scheme in lower case was answered 401
C16_Witness ==
  /\ resp.op = "authenticate"
  /\ resp.status = 401
  /\ resp.header = HeaderLower
  /\ authorization = HeaderLower
  /\ stories # {}

\* the array of categories the last request carried, if any
CarriedCategories == {c.items : c \in {f \in resp.body.categories : f.isArray}}

\* C17: no user's stored categories list has more than 8 entries, and a
\* saveCategories or updateProfile request that carries more than 8
\* categories is answered 400 and leaves the users' rows as they were.
C17_AtMostEightCategories ==
  /\ [](\A u \in users : Len(u.categories) <= 8)
  /\ [][(/\ started' = started + 1
         /\ resp'.op \in {"saveCategories", "updateProfile"}
         /\ \E f \in resp'.body.categories : f.isArray /\ Len(f.items) > 8)
        => /\ resp'.status = 400
           /\ resp'.writes = 0
           /\ users' = users
       ]_vars

\* a user who has stored 8 categories sent 9: the answer is 400 and the 8
\* are still stored
C17_Witness ==
  /\ resp.op \in {"saveCategories", "updateProfile"}
  /\ resp.status = 400
  /\ \E items \in CarriedCategories : Len(items) = 9
  /\ \E u \in users : u.id = resp.user /\ Len(u.categories) = 8

\* C18: the Follow table never holds a row whose followerId equals its
\* followingId, also with requests interleaved: a followUser whose
\* followingId is the caller's own id is answered 400 'Cannot follow
\* yourself' before any database call and writes nothing.
C18_NoSelfFollow ==
  /\ [](\A p \in DOMAIN follows : follows[p] > 0 => p[1] # p[2])
  /\ []((resp.op = "followUser" /\ resp.user = resp.target)
        => /\ resp.status = 400
           /\ resp.data = "Cannot follow yourself"
           /\ resp.writes = 0)
  /\ [][\A r \in Slots :
          (req'[r].op = "followUser" /\ req'[r].pc # "idle")
          => req'[r].user # req'[r].target
       ]_vars
  /\ [][(/\ started' = started + 1
         /\ resp'.op = "followUser"
         /\ resp'.user = resp'.target
         /\ \A r \in Slots : req'[r] = req[r])
        => follows' = follows
       ]_vars

\* a user who follows another one has asked to follow themselves and was
\* turned away
C18_Witness ==
  /\ resp.op = "followUser"
  /\ resp.user = resp.target
  /\ resp.status = 400
  /\ \E p \in DOMAIN follows : follows[p] = 1 /\ p[1] = resp.user

\* C19: a story is created with expiresAt exactly 24 hours (1440 minutes)
\* after the instant of its upload, and no later step changes the expiresAt
\* of a story that exists.
C19_StoryExpiresAfter24Hours ==
  [][/\ \A s \in stories' :
          (\A old \in stories : old.id # s.id)
          => s.createdAt = now /\ s.expiresAt = now + 24 * 60
     /\ \A old \in stories : \A s \in stories' :
          s.id = old.id => s.expiresAt = old.expiresAt
    ]_vars


\* C20: when the backend answered a follow read with success, the service
\* function has returned that answer's payload: checkFollowStatus the
\* isFollowing flag, getFollowersCount and getFollowingCount the count,
\* getFollowingStories the story list, which loadFollowingStories stored in
\* state.followingStories without the entries expired by then
C20_FollowServiceReturnsPayload ==
  (client.pc = "done" /\ resp.status = 200 /\ resp.op = client.fn)
  => /\ client.outcome = "returned"
     /\ CASE client.fn = "checkFollowStatus" ->
               client.value = JBool(resp.data.isFollowing)
          [] client.fn \in {"getFollowersCount", "getFollowingCount"} ->
               client.value = JNum(resp.data.count)
          [] OTHER ->
               /\ client.value = JArr(resp.data)
               /\ client.followingStories = {s \in resp.data : s.expiresAt > client.at}


\* C21: when the backend accepted a like request and answered {success:
\* true, liked}, the likeStory thunk is fulfilled with {storyId, liked}
\* carrying the backend's flag
C21_LikeThunkFulfilled ==
  (client.pc = "done" /\ client.fn = "likeStory" /\ resp.op = "likeStory"
   /\ resp.status = 200)
  => /\ client.outcome = "fulfilled"
     /\ client.value = JObj([storyId |-> JNum(resp.story), liked |-> JBool(resp.data)])


\* C22: a getFollowingStories answer holds stories only of users the
\* requester follows, at most one per followed user, and that one is the
\* user's non-expired story with the greatest createdAt; it is empty when
\* the requester follows no one
C22_FollowingStoriesLatestOfFollowed ==
  [][\A r \in Slots :
       (req[r].op = "getFollowingStories" /\ req'[r].pc = "idle")
       => /\ resp'.status = 200
          /\ \A s \in resp'.data :
               /\ FollowCount(req[r].user, s.userId) > 0
               /\ s \in stories
               /\ s.expiresAt > req[r].at
               /\ \A t \in stories :
                    (t.userId = s.userId /\ t.expiresAt > req[r].at)
                    => t.createdAt <= s.createdAt
          /\ \A s \in resp'.data : \A t \in resp'.data : s.userId = t.userId => s = t
          /\ (\A p \in users : FollowCount(req[r].user, p.id) = 0) => resp'.data = {}
    ]_vars

\* getFollowingStories has answered with one story of a followed user who has
\* an older story that is not expired either
C22_Witness ==
  /\ resp.op = "getFollowingStories"
  /\ resp.status = 200
  /\ \E s \in resp.data : \E t \in stories :
       /\ t.userId = s.userId
       /\ t.createdAt < s.createdAt
       /\ t.expiresAt > resp.at
       /\ FollowCount(resp.user, s.userId) > 0


\* the last two requests were successful likeStory requests of one user on
\* one story, the second just answered
TwoLikesInARow ==
  /\ AllIdle
  /\ resp.op = "likeStory"
  /\ resp.status = 200
  /\ likeLog.prev.answer.op = "likeStory"
  /\ likeLog.prev.answer.status = 200
  /\ likeLog.prev.answer.user = resp.user
  /\ likeLog.prev.answer.story = resp.story

\* C23: likeStory is a toggle: two consecutive successful likeStory requests
\* of one user on one story answer opposite liked flags and leave the
\* StoryLike pairs and every likesCount as they were before the first
C23_LikeIsAToggle ==
  TwoLikesInARow
  => /\ resp.data = ~likeLog.prev.answer.data
     /\ LikePairs = likeLog.prev.pairs
     /\ LikesCounts = likeLog.prev.counts

\* a user who had liked a story has unliked it and liked it again
C23_Witness ==
  /\ TwoLikesInARow
  /\ resp.data = TRUE
  /\ likeLog.prev.answer.data = FALSE
  /\ <<resp.story, resp.user>> \in LikePairs


\* C24: a verifyOTP request whose code does not match the latest unverified,
\* unexpired row fails with 400 'Invalid OTP code' and changes no Otp row,
\* and a verifyOTP request with that row's code goes on to mark it verified,
\* whatever was tried before
C24_WrongCodeLeavesOtp ==
  [][\A r \in Slots :
       (req[r].pc = "verify_find" /\ req'[r].pc # "verify_find")
       => /\ (req'[r].pc = "idle" /\ resp'.status = 400 /\ resp'.data = "Invalid OTP code")
             => /\ otps' = otps
                /\ resp'.writes = 0
                /\ \E o \in otps : o.mobile = req[r].mobile /\ ~o.verified
                                     /\ o.code # req[r].code
          /\ \A otp \in OtpFindFirst(req[r].mobile, FALSE) :
               ~IsOTPExpired(otp.expiresAt)
               => IF otp.code = req[r].code
                  THEN req'[r].pc = "verify_update" /\ req'[r].snap = {otp.id}
                  ELSE /\ req'[r].pc = "idle"
                       /\ resp'.status = 400
                       /\ resp'.data = "Invalid OTP code"
                       /\ otps' = otps
    ]_vars

\* a verifyOTP with a wrong code was turned down and the row it was tried
\* against is still there, unverified and not expired
C24_Witness ==
  /\ resp.op = "verifyOTP"
  /\ resp.status = 400
  /\ resp.data = "Invalid OTP code"
  /\ \E o \in otps : o.mobile = resp.mobile /\ ~o.verified /\ ~IsOTPExpired(o.expiresAt)


\* C25: no Otp row is created for a mobile number that belongs to a User:
\* sendOTP and resendOTP fail and leave the Otp table unchanged when the
\* normalized mobile is registered
C25_NoOtpForRegisteredMobile ==
  [][/\ \A o \in otps' \ otps : o.verified \/ UserByMobile(o.mobile) = {}
     /\ \A r \in Slots :
          ((Ends(r, "sendOTP") \/ Ends(r, "resendOTP")) /\ UserByMobile(req[r].mobile) # {})
          => resp'.status # 200 /\ otps' = otps /\ resp'.writes = 0
    ]_vars


\* v is the string s
IsStr(v, s) == v.kind = "string" /\ v.val = s

\* C26: ApiService.request never rejects and has cleared its timer when it
\* settles: a timeout gives code TIMEOUT, an unreadable body PARSE_ERROR, a
\* non-2xx status success = false with the backend's error message and code
\* (the HTTP status where the body names no code), any other failure
\* NETWORK_ERROR
C26_RequestNeverRejects ==
  (client.fn = "request" /\ client.pc = "done")
  => LET f == client.fetched
         error == Get(client.value, "error")
         failed == Get(client.value, "success").kind = "boolean"
                   /\ ~Get(client.value, "success").val
         backend == Get(f.body, "error")
     IN  /\ client.outcome = "resolved"
         /\ client.value.kind = "object"
         /\ client.timer = "cleared"
         /\ f.kind = "AbortError" => failed /\ IsStr(Get(error, "code"), "TIMEOUT")
         /\ f.kind = "TypeError" => failed /\ IsStr(Get(error, "code"), "NETWORK_ERROR")
         /\ (f.kind = "response" /\ f.body.kind = "unparseable")
            => failed /\ IsStr(Get(error, "code"), "PARSE_ERROR")
         /\ (f.kind = "response" /\ f.body.kind = "null")
            => failed /\ IsStr(Get(error, "code"), "NETWORK_ERROR")
         /\ (f.kind = "response" /\ f.body.kind = "object" /\ f.status \notin 200..299)
            => /\ failed
               /\ Get(backend, "message").kind = "string"
                  => Get(error, "message") = Get(backend, "message")
               /\ IF Get(backend, "code").kind = "string"
                  THEN Get(error, "code") = Get(backend, "code")
                  ELSE IsStr(Get(error, "code"), ToString(f.status))

\* a response whose body is the JSON null ended in the outer catch block
\* and the request resolved with NETWORK_ERROR
C26_Witness ==
  /\ client.fn = "request"
  /\ client.pc = "done"
  /\ client.fetched.kind = "response"
  /\ client.fetched.body.kind = "null"
  /\ client.outcome = "resolved"
  /\ client.timer = "cleared"


\* C27: once signOut has completed, and until a later signIn succeeds, token
\* and user are null and the stored auth_token and auth_user are deleted,
\* so isAuthenticated is false, also when a checkAuth call that started
\* before the signOut finishes after it
C27_SignedOutStaysSignedOut ==
  client.auth.signedOut
  => /\ client.auth.token = 0
     /\ client.auth.user = 0
     /\ client.auth.store.token = 0
     /\ client.auth.store.user = 0
     /\ ~IsAuthenticated(client.auth)

\* C28: every checkAuth call ends with isLoading = false; then
\* isAuthenticated holds only if a token and a user were stored and the
\* server accepted the token through getProfile or verifyToken, and in every
\* other outcome the stored entries are deleted and token and user are null
C28_CheckAuthSettles ==
  /\ [][(client.auth.check.pc # "done" /\ client'.auth.check.pc = "done")
        => LET call == client'.auth.check
               kept == call.storedToken # 0 /\ call.storedUser # 0 /\ call.accepted
           IN  /\ ~client'.auth.isLoading
               /\ IsAuthenticated(client'.auth) => kept
               /\ ~kept => /\ client'.auth.store = [token |-> 0, user |-> 0]
                            /\ client'.auth.token = 0
                            /\ client'.auth.user = 0
       ]_vars
  /\ (client.auth.check.pc \notin {"idle", "done"})
       ~> (client.auth.check.pc = "done" /\ ~client.auth.isLoading)

\* a checkAuth call has ended authenticated with the stored token, which the
\* server accepted
C28_Witness ==
  /\ client.auth.check.pc = "done"
  /\ client.auth.check.accepted
  /\ client.auth.check.storedToken = OldToken
  /\ IsAuthenticated(client.auth)
  /\ ~client.auth.isLoading
  /\ client.auth.store = [token |-> OldToken, user |-> TheUser]

====
